---- MODULE Spec2Model ----
(***************************************************************************)
(* Model of the interval-algebra core of hbp_webapp:                       *)
(*   backend/well_record/date_range.py   DateRange, DateRangeGroup         *)
(*   backend/well_record/well_record.py  WellRecord                        *)
(*   backend/data_analyzer/well_group.py WellGroup                         *)
(*                                                                         *)
(* A calendar date is modelled by its day number (an integer), so that     *)
(* "d - timedelta(days=n)" is d - n and date comparison is integer         *)
(* comparison.  An optional date (date | None) is a sequence of length 0   *)
(* (None) or 1.  A Python list is a sequence.  A call that can raise is an  *)
(* operator returning [err |-> "ok" | <exception name>, val |-> result].   *)
(***************************************************************************)
EXTENDS Integers, Sequences, FiniteSets, TLC

\* ------------------------------------------------------------------------
\* Bounds of the model
\* ------------------------------------------------------------------------
\* Dates are the day numbers 0..MaxDay.
MaxDay == 2
\* Largest number of ranges in a DateRangeGroup under test.
MaxLen == 3
\* Largest days_tolerance passed to merge_all.
MaxTol == 1

Days == 0..MaxDay
Tolerances == 0..MaxTol

\* ------------------------------------------------------------------------
\* Generic helpers
\* ------------------------------------------------------------------------
Min2(x, y) == IF x <= y THEN x ELSE y
Max2(x, y) == IF x >= y THEN x ELSE y

Ok(v) == [err |-> "ok", val |-> v]
Raise(e) == [err |-> e, val |-> <<>>]

\* All sequences over S of length at most n.
SeqsUpTo(S, n) == UNION {[1..k -> S] : k \in 0..n}

\* ------------------------------------------------------------------------
\* DateRange
\* ------------------------------------------------------------------------
\* The valid DateRange values over Days (start_date <= end_date).
Ranges == {dr \in [start_date : Days, end_date : Days] :
              dr.start_date <= dr.end_date}

\* A slip of __init__: dates given in the wrong order are swapped.
DateRangeInit_swapping(s, e) ==
    IF s > e THEN Ok([start_date |-> e, end_date |-> s])
    ELSE Ok([start_date |-> s, end_date |-> e])

\* DateRange.__init__: raises ValueError when start_date > end_date.
DateRangeInit(s, e) ==
    IF s > e THEN Raise("ValueError")
    ELSE Ok([start_date |-> s, end_date |-> e])

\* DateRange.duration_in_days
duration_in_days(dr) == (dr.end_date - dr.start_date) + 1

\* A slip of is_contiguous_with: only the first of the two tests is made
\* (other's end within self widened by the tolerance).
is_contiguous_with_one_sided(self, other, days_tolerance) ==
    /\ self.start_date - days_tolerance <= other.end_date
    /\ other.end_date <= self.end_date + days_tolerance

\* DateRange.is_contiguous_with
is_contiguous_with(self, other, days_tolerance) ==
    IF /\ self.start_date - days_tolerance <= other.end_date
       /\ other.end_date <= self.end_date + days_tolerance
    THEN TRUE
    ELSE IF /\ other.start_date - days_tolerance <= self.end_date
            /\ self.end_date <= other.end_date + days_tolerance
    THEN TRUE
    ELSE FALSE

\* A slip of encompasses: strict comparisons (ranges sharing a start or an
\* end date are no longer encompassed).
encompasses_strict(self, other, days_tolerance) ==
    /\ self.start_date - days_tolerance < other.start_date
    /\ self.end_date + days_tolerance > other.end_date

\* DateRange.encompasses
encompasses(self, other, days_tolerance) ==
    /\ self.start_date - days_tolerance <= other.start_date
    /\ self.end_date + days_tolerance >= other.end_date

\* A slip of merge_with: the merged range ends where self ends.
merge_with_keeping_end(self, other, days_tolerance) ==
    IF ~is_contiguous_with(self, other, days_tolerance)
    THEN <<self, other>>
    ELSE LET start == Min2(self.start_date, other.start_date)
         IN  <<DateRangeInit(start, self.end_date).val>>

\* DateRange.merge_with: a list of one or two ranges.
merge_with(self, other, days_tolerance) ==
    IF ~is_contiguous_with(self, other, days_tolerance)
    THEN <<self, other>>
    ELSE LET start == Min2(self.start_date, other.start_date)
             end   == Max2(self.end_date, other.end_date)
         IN  <<DateRangeInit(start, end).val>>

\* DateRange.subtract: between 0 and 2 ranges, or the ValueError of a
\* DateRange constructed with start_date > end_date.
subtract(self, other) ==
    IF ~is_contiguous_with(self, other, 0)
    THEN Ok(<<self>>)
    ELSE IF encompasses(other, self, 0)
    THEN Ok(<<>>)
    ELSE IF encompasses(self, other, 0)
    THEN LET dr1 == DateRangeInit(self.start_date, other.start_date - 1)
             dr2 == DateRangeInit(other.end_date + 1, self.end_date)
         IN  IF dr1.err # "ok" THEN Raise(dr1.err)
             ELSE IF dr2.err # "ok" THEN Raise(dr2.err)
             ELSE Ok(<<dr1.val, dr2.val>>)
    ELSE IF other.start_date < self.start_date
    THEN LET dr == DateRangeInit(other.end_date + 1, self.end_date)
         IN  IF dr.err # "ok" THEN Raise(dr.err) ELSE Ok(<<dr.val>>)
    ELSE LET dr == DateRangeInit(self.start_date, other.start_date - 1)
         IN  IF dr.err # "ok" THEN Raise(dr.err) ELSE Ok(<<dr.val>>)

\* A slip of find_overlap: when the ranges share a day and neither contains
\* the other, self is returned whole.
find_overlap_self_biased(self, other) ==
    IF ~is_contiguous_with(self, other, 0)
    THEN Ok(<<>>)
    ELSE IF encompasses(other, self, 0)
    THEN Ok(<<self>>)
    ELSE IF encompasses(self, other, 0)
    THEN Ok(<<other>>)
    ELSE Ok(<<self>>)

\* DateRange.find_overlap: None (<<>>) or one range (<<dr>>), or the
\* ValueError of a DateRange constructed with start_date > end_date.
find_overlap(self, other) ==
    IF ~is_contiguous_with(self, other, 0)
    THEN Ok(<<>>)
    ELSE IF encompasses(other, self, 0)
    THEN Ok(<<self>>)
    ELSE IF encompasses(self, other, 0)
    THEN Ok(<<other>>)
    ELSE IF other.start_date < self.start_date
    THEN LET dr == DateRangeInit(self.start_date, other.end_date)
         IN  IF dr.err # "ok" THEN Raise(dr.err) ELSE Ok(<<dr.val>>)
    ELSE LET dr == DateRangeInit(other.start_date, self.end_date)
         IN  IF dr.err # "ok" THEN Raise(dr.err) ELSE Ok(<<dr.val>>)

\* Day d lies in the closed range dr.
InRange(d, dr) == dr.start_date <= d /\ d <= dr.end_date

\* Day d lies in some range of the list drs.
Covers(drs, d) == \E i \in 1..Len(drs) : InRange(d, drs[i])

\* Two ranges share a day.
ShareDay(a, b) == \E d \in a.start_date..a.end_date : InRange(d, b)

\* ------------------------------------------------------------------------
\* DateRangeGroup (its field date_ranges is a list of DateRange)
\* ------------------------------------------------------------------------
\* list.sort(key=...) on one field: Python's sort is stable, so an element
\* goes after every element whose key is less than or equal to its own.
InsertByKey(sorted, x, k) ==
    LET n == Cardinality({i \in 1..Len(sorted) : sorted[i][k] <= x[k]})
    IN  SubSeq(sorted, 1, n) \o <<x>> \o SubSeq(sorted, n + 1, Len(sorted))

RECURSIVE StableSortBy(_, _)
StableSortBy(s, k) ==
    IF s = <<>> THEN <<>>
    ELSE InsertByKey(StableSortBy(SubSeq(s, 1, Len(s) - 1), k), s[Len(s)], k)

\* A slip of sort: the two sorts in the other order, so the start date is
\* the primary key.
sort_start_major(date_ranges) ==
    StableSortBy(StableSortBy(date_ranges, "end_date"), "start_date")

\* DateRangeGroup.sort: sort by start date, then (stable) by end date.
sort(date_ranges) ==
    StableSortBy(StableSortBy(date_ranges, "start_date"), "end_date")

\* The for loop of merge_all from index i (1-based; the code's i is i - 1):
\* merges drs[i] with drs[min(i + 1, last)] and steps by 2.
RECURSIVE MergePairsFrom(_, _, _)
MergePairsFrom(drs, i, days_tolerance) ==
    IF i > Len(drs) THEN <<>>
    ELSE LET j == Min2(i + 1, Len(drs))
         IN  merge_with(drs[i], drs[j], days_tolerance)
                 \o MergePairsFrom(drs, i + 2, days_tolerance)

\* The while loop of merge_all: the body ends with drs = new_drs, so the
\* loop condition compares a list with itself after the first pass.
RECURSIVE MergeLoop(_, _, _)
MergeLoop(drs, new_drs, days_tolerance) ==
    IF Len(drs) = Len(new_drs) THEN new_drs
    ELSE LET pass == MergePairsFrom(drs, 1, days_tolerance)
         IN  MergeLoop(pass, pass, days_tolerance)

\* DateRangeGroup.merge_all: the new value of date_ranges.
merge_all(date_ranges, days_tolerance) ==
    MergeLoop(sort(date_ranges), <<>>, days_tolerance)

\* The for loop of subtract_from_all from index i: the flattened results,
\* or the exception of the first subtract that raises.
RECURSIVE SubtractEachFrom(_, _, _)
SubtractEachFrom(drs, i, date_range) ==
    IF i > Len(drs) THEN Ok(<<>>)
    ELSE LET subtracted == subtract(drs[i], date_range)
             rest == SubtractEachFrom(drs, i + 1, date_range)
         IN  IF subtracted.err # "ok" THEN Raise(subtracted.err)
             ELSE IF rest.err # "ok" THEN Raise(rest.err)
             ELSE Ok(subtracted.val \o rest.val)

\* DateRangeGroup.subtract_from_all: the new value of date_ranges, or the
\* exception (date_ranges is then left as it was).
subtract_from_all(date_ranges, date_range) ==
    LET new_drs == SubtractEachFrom(date_ranges, 1, date_range)
    IN  IF new_drs.err # "ok" THEN Raise(new_drs.err)
        ELSE Ok(sort(new_drs.val))

\* The inner loop of find_all_overlaps: overlaps of dr_b with self[i..].
RECURSIVE OverlapsWith(_, _, _)
OverlapsWith(self, i, dr_b) ==
    IF i > Len(self) THEN <<>>
    ELSE find_overlap(self[i], dr_b).val \o OverlapsWith(self, i + 1, dr_b)

\* A slip of OverlapsFrom: only the first range of other is compared.
OverlapsFrom_first_only(self, other, j) ==
    IF j > Len(other) THEN <<>>
    ELSE OverlapsWith(self, 1, other[1])

\* The outer loop of find_all_overlaps: for dr_b in other[j..].
RECURSIVE OverlapsFrom(_, _, _)
OverlapsFrom(self, other, j) ==
    IF j > Len(other) THEN <<>>
    ELSE OverlapsWith(self, 1, other[j]) \o OverlapsFrom(self, other, j + 1)

\* A slip of find_all_overlaps: an empty other group is taken as "no
\* constraint" and self is returned.
find_all_overlaps_ignoring_empty(self, other) ==
    IF Len(self) = 0 THEN <<>>
    ELSE IF Len(other) = 0 THEN self
    ELSE merge_all(OverlapsFrom(self, other, 1), 0)

\* DateRangeGroup.find_all_overlaps: the date_ranges of the new group.
\* (find_overlap does not raise on valid ranges, see C10.)
find_all_overlaps(self, other) ==
    IF Len(self) = 0 \/ Len(other) = 0 THEN <<>>
    ELSE merge_all(OverlapsFrom(self, other, 1), 0)

\* The loop of get_shortest_and_longest_durations from index i, with the
\* running values of shortest_duration and longest_duration.
RECURSIVE DurationsFrom(_, _, _, _)
DurationsFrom(drs, i, shortest_duration, longest_duration) ==
    IF i > Len(drs) THEN <<shortest_duration, longest_duration>>
    ELSE DurationsFrom(drs, i + 1,
                       Min2(shortest_duration, duration_in_days(drs[i])),
                       Max2(longest_duration, duration_in_days(drs[i])))

\* DateRangeGroup.get_shortest_and_longest_durations: both running values
\* start at 0.
get_shortest_and_longest_durations(date_ranges) ==
    DurationsFrom(date_ranges, 1, 0, 0)

\* ------------------------------------------------------------------------
\* WellRecord
\* ------------------------------------------------------------------------
\* first_date / last_date of a record that has none.
None == <<>>

\* Optional dates over Days.
OptDates == {None} \cup {<<d>> : d \in Days}

\* WellRecord.date_ranges is a dict: a function whose domain is the set of
\* registered categories, each mapped to the list of its DateRangeGroup.
\* WellRecord.registered_categories
registered_categories(wr) == DOMAIN wr.date_ranges

\* WellRecord.date_ranges_by_category: dict.get with a new empty group as
\* the default.
date_ranges_by_category(wr, category) ==
    IF category \in DOMAIN wr.date_ranges THEN wr.date_ranges[category]
    ELSE <<>>

\* DateRangeGroup.add_date_range with a DateRange argument: list.append.
add_date_range(date_ranges, date_range) == Append(date_ranges, date_range)

\* dict.setdefault(k, default): the dict afterwards.
setdefault(dict, k, default) ==
    IF k \in DOMAIN dict THEN dict
    ELSE [x \in DOMAIN dict \cup {k} |-> IF x = k THEN default ELSE dict[x]]

\* WellRecord.register_date_range: the new value of date_ranges.
register_date_range(date_ranges, date_range, category) ==
    LET d == setdefault(date_ranges, category, <<>>)
    IN  [d EXCEPT ![category] = add_date_range(@, date_range)]

\* A slip of register_empty_category: the category is always set to a new
\* empty group.
register_empty_category_resetting(date_ranges, category) ==
    [x \in DOMAIN date_ranges \cup {category} |->
        IF x = category THEN <<>> ELSE date_ranges[x]]

\* WellRecord.register_empty_category: the new value of date_ranges.
register_empty_category(date_ranges, category) ==
    setdefault(date_ranges, category, <<>>)

\* ------------------------------------------------------------------------
\* WellGroup
\* ------------------------------------------------------------------------
\* The loop of find_first_date from index i.
RECURSIVE FirstDateFrom(_, _, _)
FirstDateFrom(recs, i, first) ==
    IF i > Len(recs) THEN first
    ELSE LET wr == recs[i]
         IN  IF first = None
             THEN FirstDateFrom(recs, i + 1, wr.first_date)
             ELSE IF wr.first_date # None /\ wr.first_date[1] < first[1]
             THEN FirstDateFrom(recs, i + 1, wr.first_date)
             ELSE FirstDateFrom(recs, i + 1, first)

\* A slip of find_first_date: the first_date of the first record that has
\* one, whatever the later records hold.
find_first_date_first_set(recs) ==
    LET S == {i \in 1..Len(recs) : recs[i].first_date # None}
    IN  IF S = {} THEN None
        ELSE recs[CHOOSE i \in S : \A j \in S : i <= j].first_date

\* WellGroup.find_first_date
find_first_date(recs) == FirstDateFrom(recs, 1, None)

\* The loop of find_last_date from index i.
RECURSIVE LastDateFrom(_, _, _)
LastDateFrom(recs, i, last) ==
    IF i > Len(recs) THEN last
    ELSE LET wr == recs[i]
         IN  IF last = None
             THEN LastDateFrom(recs, i + 1, wr.last_date)
             ELSE IF wr.last_date # None /\ wr.last_date[1] > last[1]
             THEN LastDateFrom(recs, i + 1, wr.last_date)
             ELSE LastDateFrom(recs, i + 1, last)

\* WellGroup.find_last_date
find_last_date(recs) == LastDateFrom(recs, 1, None)

\* What a run of find_gaps leaves: the exception or "ok", the list of the
\* group it returns (gaps), the record whose list that group shares
\* (alias, 0 when the list is its own) and the records after the run.
GapsResult(e, gaps, alias, recs) ==
    [err |-> e, gaps |-> gaps, alias |-> alias, recs |-> recs]

\* find_gaps, line 98: the record starts after the overall first date.
NeedsFrontPad(overall_first, wr) == overall_first[1] < wr.first_date[1]

\* find_gaps, line 102: the record ends before the overall last date.
NeedsBackPad(overall_last, wr) == overall_last[1] > wr.last_date[1]

\* A slip of FrontPad: the synthetic gap runs up to first_date itself.
FrontPad_inclusive(overall_first, wr) ==
    DateRangeInit(overall_first[1], wr.first_date[1]).val

\* find_gaps, line 100: the synthetic gap before the record's first date.
FrontPad(overall_first, wr) ==
    DateRangeInit(overall_first[1], wr.first_date[1] - 1).val

\* find_gaps, line 104: the synthetic gap after the record's last date.
BackPad(overall_last, wr) ==
    DateRangeInit(wr.last_date[1] + 1, overall_last[1]).val

\* A slip of SeedsGaps: only the first record of the list can seed.
SeedsGaps_first_only(i, initialized) == i = 1

\* find_gaps, line 107: this record seeds the running result (i is 1-based).
SeedsGaps(i, initialized) == i = 1 \/ ~initialized

\* The list of a record is replaced in every place of recs that holds the
\* same WellRecord object (well_records holds references: field obj is the
\* identity of the object).
SetList(recs, obj, category, date_ranges) ==
    [j \in 1..Len(recs) |->
        IF recs[j].obj = obj
        THEN [recs[j] EXCEPT !.date_ranges[category] = date_ranges]
        ELSE recs[j]]

\* The list of the running result: its own list, or the list of the
\* record that seeded it (alias), as that list is now.
RunningGaps(recs, gaps, alias, category) ==
    IF alias = 0 THEN gaps ELSE recs[alias].date_ranges[category]

\* The main loop of find_gaps from index i (1-based; the code's i is i - 1).
\* normalized_dr_group = DateRangeGroup(original_dr_group.date_ranges) is a
\* new group around the SAME list object, so the add_date_range calls on
\* it append to the record's own list: recs carries that effect, in every
\* place that holds the record.
RECURSIVE GapsLoop(_, _, _, _, _, _, _, _)
GapsLoop(recs, i, gaps, alias, initialized, overall_first, overall_last, category) ==
    IF i > Len(recs)
    THEN GapsResult("ok", RunningGaps(recs, gaps, alias, category), alias, recs)
    ELSE
      LET wr == recs[i]
          original == date_ranges_by_category(wr, category)
          none_in == wr.first_date = None \/ wr.last_date = None
      IN
      IF none_in /\ wr.first_date # wr.last_date
      THEN GapsResult("ValueError", <<>>, 0, recs)
      ELSE IF none_in
      THEN GapsLoop(recs, i + 1, gaps, alias, initialized,
                    overall_first, overall_last, category)
      ELSE
        LET padded_front ==
                IF NeedsFrontPad(overall_first, wr)
                THEN add_date_range(original, FrontPad(overall_first, wr))
                ELSE original
            normalized ==
                IF NeedsBackPad(overall_last, wr)
                THEN add_date_range(padded_front, BackPad(overall_last, wr))
                ELSE padded_front
            recs2 == SetList(recs, wr.obj, category, normalized)
            running == RunningGaps(recs2, gaps, alias, category)
        IN
        IF SeedsGaps(i, initialized)
        THEN GapsLoop(recs2, i + 1, normalized, i, TRUE,
                      overall_first, overall_last, category)
        ELSE IF Len(running) = 0
        THEN GapsResult("ok", running, alias, recs2)
        ELSE GapsLoop(recs2, i + 1, find_all_overlaps(running, normalized), 0,
                      TRUE, overall_first, overall_last, category)

\* A slip of find_gaps: the category is looked up on the first record only.
find_gaps_first_record_only(recs, category) ==
    LET overall_first_date == find_first_date(recs)
        overall_last_date  == find_last_date(recs)
    IN  IF Len(recs) > 0 /\ category \notin registered_categories(recs[1])
        THEN GapsResult("KeyError", <<>>, 0, recs)
        ELSE GapsLoop(recs, 1, <<>>, 0, FALSE,
                      overall_first_date, overall_last_date, category)

\* WellGroup.find_gaps on the records recs.
find_gaps(recs, category) ==
    LET overall_first_date == find_first_date(recs)
        overall_last_date  == find_last_date(recs)
    IN  IF \E i \in 1..Len(recs) : category \notin registered_categories(recs[i])
        THEN GapsResult("KeyError", <<>>, 0, recs)
        ELSE GapsLoop(recs, 1, <<>>, 0, FALSE,
                      overall_first_date, overall_last_date, category)

\* Every category name of the model in the order of Python's string
\* comparison: the standard categories of standard_categories.py, then the
\* lower-case names (upper case sorts before lower case, "B" before "I",
\* "i" before "t").
PyStringOrder ==
    <<"NO_PROD_BUT_SHUTIN_COUNTS", "NO_PROD_IGNORE_SHUTIN", "ignore", "test">>

\* sorted(categories) on a set of category names.
sorted(categories) == SelectSeq(PyStringOrder, LAMBDA c : c \in categories)

\* A slip of SharedFrom: only the first record is looked at.
SharedFrom_first_record(recs, i, categories) ==
    registered_categories(recs[1])

\* The for loop of shared_categories from index i (1-based): the set of
\* the first record's categories, intersected with each later record's.
RECURSIVE SharedFrom(_, _, _)
SharedFrom(recs, i, categories) ==
    IF i > Len(recs) THEN categories
    ELSE IF i = 1
         THEN SharedFrom(recs, 2, registered_categories(recs[1]))
         ELSE SharedFrom(recs, i + 1,
                         categories \cap registered_categories(recs[i]))

\* WellGroup.shared_categories: the list returned.
shared_categories(recs) ==
    IF Len(recs) = 0 THEN <<>>
    ELSE sorted(SharedFrom(recs, 1, {}))

\* ------------------------------------------------------------------------
\* State
\* ------------------------------------------------------------------------
VARIABLES
    well_records,     \* WellGroup.well_records: the list of WellRecord (references: obj)
    researched_gaps,  \* WellGroup.researched_gaps: category -> cached group
    wg_call,          \* the last WellGroup call: arguments, outcome, pre-state
    drg_date_ranges,  \* DateRangeGroup.date_ranges of the group under test
    drg_call,         \* the last DateRangeGroup call on it
    dr_self,          \* a DateRange (the receiver of the DateRange calls)
    dr_other,         \* a DateRange (their argument)
    dr_call,          \* the last DateRange call and what it returned
    wr_date_ranges,   \* WellRecord.date_ranges of the record under test
    wr_call,          \* the last WellRecord call on it
    collection,       \* the MongoDB collection of well records: _id -> document
    gw_call,          \* the last gateway / controller call and its outcome
    collectors,       \* WellRecordController.collectors: the state codes registered
    requests          \* the get_well_record calls in flight: where each one is

vars == <<well_records, researched_gaps, wg_call, drg_date_ranges, drg_call,
          dr_self, dr_other, dr_call, wr_date_ranges, wr_call,
          collection, gw_call, collectors, requests>>

wg_vars  == <<well_records, researched_gaps, wg_call>>
drg_vars == <<drg_date_ranges, drg_call>>
dr_vars  == <<dr_self, dr_other, dr_call>>
wr_vars  == <<wr_date_ranges, wr_call>>
db_vars  == <<collection, gw_call, collectors, requests>>
ctl_vars == <<collectors, requests>>

\* ------------------------------------------------------------------------
\* Inputs
\* ------------------------------------------------------------------------
\* Largest number of records in the well group, with records of every kind.
MaxWells == 2
\* Largest number of records in the well group of SpecTrio.
MaxWellsTrio == 3
\* Largest number of ranges registered on a record for one category by
\* its provider.
MaxRanges == 1
\* Largest length a record's list may reach (find_gaps appends to it).
MaxListLen == 4
\* Largest number of ranges in the group passed to find_all_overlaps.
MaxOtherLen == 2
\* Largest number of ranges registered on the record of SpecRecord.
MaxRecordRanges == 2

Categories == {"test"}

\* The records handed to add_well_record: any first_date / last_date
\* (each may be None; when both are set, first_date <= last_date), any set
\* of registered categories, each with at most MaxRanges valid ranges.
RecordDates ==
    {p \in OptDates \X OptDates :
        (p[1] # None /\ p[2] # None) => p[1][1] <= p[2][1]}

CategoryMaps ==
    UNION {[S -> SeqsUpTo(Ranges, MaxRanges)] : S \in SUBSET Categories}

WellRecords ==
    {[first_date |-> p[1], last_date |-> p[2], date_ranges |-> m] :
        p \in RecordDates, m \in CategoryMaps}

\* Every range of the record lies within [first_date, last_date]; a record
\* without both dates has no ranges.
RangesWithinWindow(wr) ==
    \A c \in DOMAIN wr.date_ranges : \A i \in 1..Len(wr.date_ranges[c]) :
        /\ wr.first_date # None /\ wr.last_date # None
        /\ wr.first_date[1] <= wr.date_ranges[c][i].start_date
        /\ wr.date_ranges[c][i].end_date <= wr.last_date[1]

\* The records of SpecTrio: every category is registered and the ranges of
\* a record lie within its window of dates.
TrioRecords ==
    {wr \in WellRecords :
        DOMAIN wr.date_ranges = Categories /\ RangesWithinWindow(wr)}

\* The records of SpecDates: no category registered, any dates.
DateOnlyRecords == {wr \in WellRecords : DOMAIN wr.date_ranges = {}}

\* The categories of SpecCache, and its records: "test" with any list of
\* ranges within the record's window, "ignore" registered empty or not
\* registered.
CacheCategories == {"test", "ignore"}

CacheCategoryMaps ==
    UNION {[S -> SeqsUpTo(Ranges, MaxRanges)] : S \in SUBSET CacheCategories}

CacheRecords ==
    {wr \in {[first_date |-> p[1], last_date |-> p[2], date_ranges |-> m] :
                p \in RecordDates, m \in CacheCategoryMaps} :
        /\ RangesWithinWindow(wr)
        /\ "ignore" \in DOMAIN wr.date_ranges =>
              wr.date_ranges["ignore"] = <<>>}

\* The records of SpecShared: any of three categories registered, each
\* empty, and the record has no dates or spans one day.
\* The ranges that the owners pass: those within the days 0 and 1.
OwnerRanges == {dr \in Ranges : dr.end_date <= 1}

\* The records added to a group whose objects are changed by their owners:
\* undated, dated day 0 to 1 or day 0 to 0, the category not registered or
\* registered empty; a record dated day 0 to 1 that holds two ranges out of
\* order; and a record with only its last date set.
OwnerRecords ==
    {[first_date |-> p[1], last_date |-> p[2], date_ranges |-> m] :
        p \in {<<None, None>>, <<<<0>>, <<1>>>>, <<<<0>>, <<0>>>>},
        m \in {<<>>, [c \in Categories |-> <<>>]}}
      \cup {[first_date |-> <<0>>, last_date |-> <<1>>,
              date_ranges |-> [c \in Categories |->
                  <<[start_date |-> 1, end_date |-> 1],
                    [start_date |-> 0, end_date |-> 0]>>]]}
      \cup {[first_date |-> None, last_date |-> <<0>>,
              date_ranges |-> [c \in Categories |-> <<>>]]}

SharedCategories == {PyStringOrder[k] : k \in 1..Len(PyStringOrder)}

SharedRecords ==
    {[first_date |-> p, last_date |-> p, date_ranges |-> [c \in S |-> <<>>]] :
        p \in {None, <<0>>}, S \in SUBSET SharedCategories}

NoWgCall ==
    [op |-> "init", category |-> "", err |-> "ok", val |-> <<>>, before |-> <<>>]
NoDrgCall ==
    [op |-> "init", tol |-> 0, err |-> "ok", other |-> <<>>, val |-> <<>>,
     before |-> <<>>]
NoDrCall == [op |-> "init", args |-> <<>>, err |-> "ok", val |-> <<>>]

\* ------------------------------------------------------------------------
\* WellGroup as a state machine
\* ------------------------------------------------------------------------
\* WellGroup.__init__
WgInit ==
    /\ well_records = <<>>
    /\ researched_gaps = <<>>
    /\ wg_call = NoWgCall

\* The WellRecord object obj with the fields of wr.
WellRecordObject(obj, wr) ==
    [obj |-> obj, first_date |-> wr.first_date, last_date |-> wr.last_date,
     date_ranges |-> wr.date_ranges]

\* The objects that can be added to the group: a new WellRecord with the
\* fields of a record of S, or an object that the group already holds
\* (the same object again).
Addable(S) ==
    {WellRecordObject(Len(well_records) + 1, wr) : wr \in S}
        \cup {well_records[j] : j \in 1..Len(well_records)}

\* A slip of add_well_record: the cache is cleared when a record is added.
add_well_record_clearing_cache(well_record) ==
    /\ well_records' = Append(well_records, well_record)
    /\ wg_call' = [op |-> "add_well_record", category |-> "", err |-> "ok",
                   val |-> <<>>, before |-> well_records]
    /\ researched_gaps' = <<>>

\* WellGroup.add_well_record: list.append of the reference.
add_well_record(well_record) ==
    /\ well_records' = Append(well_records, well_record)
    /\ wg_call' = [op |-> "add_well_record", category |-> "", err |-> "ok",
                   val |-> <<>>, before |-> well_records]
    /\ UNCHANGED researched_gaps

\* A call of WellGroup.shared_categories; val is the list returned.
shared_categories_call ==
    /\ wg_call' = [op |-> "shared_categories", category |-> "", err |-> "ok",
                   val |-> shared_categories(well_records),
                   before |-> well_records]
    /\ UNCHANGED <<well_records, researched_gaps>>

\* The list of the group cached for a category: the cached group either
\* owns its list or shares the list of the record it was seeded from.
CachedRanges(category) ==
    LET e == researched_gaps[category]
    IN  IF e.alias = 0 THEN e.date_ranges
        ELSE well_records[e.alias].date_ranges[category]

\* A call of WellGroup.find_first_date; val is the date returned or None.
find_first_date_call ==
    /\ wg_call' = [op |-> "find_first_date", category |-> "", err |-> "ok",
                   val |-> find_first_date(well_records),
                   before |-> well_records]
    /\ UNCHANGED <<well_records, researched_gaps>>

\* A call of WellGroup.find_last_date; val is the date returned or None.
find_last_date_call ==
    /\ wg_call' = [op |-> "find_last_date", category |-> "", err |-> "ok",
                   val |-> find_last_date(well_records),
                   before |-> well_records]
    /\ UNCHANGED <<well_records, researched_gaps>>

\* A slip of find_gaps_call: the cache is filled only the first time a
\* category is queried.
find_gaps_call_cache_once(category) ==
    \E r \in {find_gaps(well_records, category)} :
        /\ well_records' = r.recs
        /\ researched_gaps' =
              IF r.err # "ok" \/ category \in DOMAIN researched_gaps
              THEN researched_gaps
              ELSE [c \in DOMAIN researched_gaps \cup {category} |->
                      IF c = category
                      THEN [alias |-> r.alias,
                            date_ranges |-> IF r.alias = 0 THEN r.gaps ELSE <<>>]
                      ELSE researched_gaps[c]]
        /\ wg_call' = [op |-> "find_gaps", category |-> category, err |-> r.err,
                       val |-> r.gaps, before |-> well_records]

\* A call of WellGroup.find_gaps(category).
find_gaps_call(category) ==
    \E r \in {find_gaps(well_records, category)} :
        /\ well_records' = r.recs
        /\ researched_gaps' =
              IF r.err # "ok" THEN researched_gaps
              ELSE [c \in DOMAIN researched_gaps \cup {category} |->
                      IF c = category
                      THEN [alias |-> r.alias,
                            date_ranges |-> IF r.alias = 0 THEN r.gaps ELSE <<>>]
                      ELSE researched_gaps[c]]
        /\ wg_call' = [op |-> "find_gaps", category |-> category, err |-> r.err,
                       val |-> r.gaps, before |-> well_records]

\* The ranges that the object obj holds under category (none when the
\* category is not registered).
HeldRanges(obj, category) ==
    LET j == CHOOSE k \in 1..Len(well_records) : well_records[k].obj = obj
    IN  IF category \in registered_categories(well_records[j])
        THEN well_records[j].date_ranges[category]
        ELSE <<>>

\* WellRecord.register_date_range called by its owner on the object obj
\* while the group holds it: the group holds the reference, so the range
\* shows in every place of well_records that holds the object, and in a
\* cache entry that shares the record's list.
owner_register_date_range(obj, date_range, category) ==
    /\ \E j \in 1..Len(well_records) : well_records[j].obj = obj
    /\ well_records' =
          [j \in 1..Len(well_records) |->
              IF well_records[j].obj = obj
              THEN [well_records[j] EXCEPT !.date_ranges =
                       register_date_range(@, date_range, category)]
              ELSE well_records[j]]
    /\ wg_call' = [op |-> "register_date_range", category |-> category,
                   err |-> "ok", val |-> <<>>, before |-> <<>>]
    /\ UNCHANGED researched_gaps

\* The call op of the owner of a held record or of the cached group, as
\* the last call (the records before the call are kept for the calls of
\* the WellGroup only).
OwnerCall(op, category, e) ==
    [op |-> op, category |-> category, err |-> e, val |-> <<>>,
     before |-> <<>>]

\* The list of the object obj under category becomes date_ranges; a group
\* that date_ranges_by_category makes up for a category that is not
\* registered is not kept.
SetHeldList(obj, category, date_ranges) ==
    IF \E j \in 1..Len(well_records) :
          /\ well_records[j].obj = obj
          /\ category \in registered_categories(well_records[j])
    THEN SetList(well_records, obj, category, date_ranges)
    ELSE well_records

\* DateRangeGroup.add_date_range(date_range) called on
\* wr.date_ranges_by_category(category) of the held object obj.
owner_add_date_range(obj, category, date_range) ==
    /\ well_records' =
          SetHeldList(obj, category,
                      add_date_range(HeldRanges(obj, category), date_range))
    /\ wg_call' = OwnerCall("record.add_date_range", category, "ok")
    /\ UNCHANGED researched_gaps

\* WellRecord.register_empty_category called by its owner on the object obj
\* while the group holds it.
owner_register_empty_category(obj, category) ==
    /\ well_records' =
          [j \in 1..Len(well_records) |->
              IF well_records[j].obj = obj
              THEN [well_records[j] EXCEPT !.date_ranges =
                       register_empty_category(@, category)]
              ELSE well_records[j]]
    /\ wg_call' = OwnerCall("register_empty_category", category, "ok")
    /\ UNCHANGED researched_gaps

\* The cache entry of category shares the list of the object obj.
SharesList(obj, category) ==
    /\ category \in DOMAIN researched_gaps
    /\ researched_gaps[category].alias # 0
    /\ well_records[researched_gaps[category].alias].obj = obj

\* The cache when the group of the object obj under category is given a
\* new list (self.date_ranges = new_drs): an entry that shared the list
\* keeps the list, which holds old_list, and shares it no more.
Detached(obj, category, old_list) ==
    IF SharesList(obj, category)
    THEN [researched_gaps EXCEPT
             ![category] = [alias |-> 0, date_ranges |-> old_list]]
    ELSE researched_gaps

\* DateRangeGroup.sort() called on wr.date_ranges_by_category(category) of
\* the held object obj: list.sort, in place.
owner_sort(obj, category) ==
    /\ well_records' = SetHeldList(obj, category,
                                   sort(HeldRanges(obj, category)))
    /\ wg_call' = OwnerCall("record.sort", category, "ok")
    /\ UNCHANGED researched_gaps

\* DateRangeGroup.merge_all(days_tolerance) on the group of the held object
\* obj: the list is sorted in place and the group is given a new list.
owner_merge_all(obj, category, days_tolerance) ==
    /\ well_records' =
          SetHeldList(obj, category,
                      merge_all(HeldRanges(obj, category), days_tolerance))
    /\ researched_gaps' =
          Detached(obj, category, sort(HeldRanges(obj, category)))
    /\ wg_call' = OwnerCall("record.merge_all", category, "ok")

\* DateRangeGroup.subtract_from_all(date_range) on the group of the held
\* object obj: the group is given a new list, unless a subtract raises.
owner_subtract_from_all(obj, category, date_range) ==
    \E r \in {subtract_from_all(HeldRanges(obj, category), date_range)} :
        /\ well_records' =
              IF r.err = "ok"
              THEN SetHeldList(obj, category, r.val)
              ELSE well_records
        /\ researched_gaps' =
              IF r.err = "ok"
              THEN Detached(obj, category, HeldRanges(obj, category))
              ELSE researched_gaps
        /\ wg_call' = OwnerCall("record.subtract_from_all", category, r.err)

\* The list of the cached group of category becomes date_ranges, in
\* place: in the record whose list it shares, or in the entry.
SetCachedList(category, date_ranges) ==
    IF researched_gaps[category].alias = 0
    THEN /\ researched_gaps' =
               [researched_gaps EXCEPT ![category].date_ranges = date_ranges]
         /\ UNCHANGED well_records
    ELSE /\ well_records' =
               SetList(well_records,
                       well_records[researched_gaps[category].alias].obj,
                       category, date_ranges)
         /\ UNCHANGED researched_gaps

\* DateRangeGroup.add_date_range(date_range) called on the group that
\* find_gaps returned for category (researched_gaps[category]).
gaps_add_date_range(category, date_range) ==
    /\ category \in DOMAIN researched_gaps
    /\ SetCachedList(category,
                     add_date_range(CachedRanges(category), date_range))
    /\ wg_call' = OwnerCall("gaps.add_date_range", category, "ok")

\* DateRangeGroup.sort() called on the group that find_gaps returned.
gaps_sort(category) ==
    /\ category \in DOMAIN researched_gaps
    /\ SetCachedList(category, sort(CachedRanges(category)))
    /\ wg_call' = OwnerCall("gaps.sort", category, "ok")

\* DateRangeGroup.merge_all(days_tolerance) called on the group that
\* find_gaps returned: its list (the record's, when shared) is sorted in
\* place and the group is given a new list.
gaps_merge_all(category, days_tolerance) ==
    /\ category \in DOMAIN researched_gaps
    /\ well_records' =
          IF researched_gaps[category].alias = 0 THEN well_records
          ELSE SetList(well_records,
                       well_records[researched_gaps[category].alias].obj,
                       category, sort(CachedRanges(category)))
    /\ researched_gaps' =
          [researched_gaps EXCEPT
              ![category] = [alias |-> 0,
                             date_ranges |-> merge_all(CachedRanges(category),
                                                       days_tolerance)]]
    /\ wg_call' = OwnerCall("gaps.merge_all", category, "ok")

\* DateRangeGroup.subtract_from_all(date_range) called on the group that
\* find_gaps returned: the group is given a new list, unless a subtract
\* raises.
gaps_subtract_from_all(category, date_range) ==
    /\ category \in DOMAIN researched_gaps
    /\ \E r \in {subtract_from_all(CachedRanges(category), date_range)} :
          /\ researched_gaps' =
                IF r.err = "ok"
                THEN [researched_gaps EXCEPT
                         ![category] = [alias |-> 0, date_ranges |-> r.val]]
                ELSE researched_gaps
          /\ wg_call' = OwnerCall("gaps.subtract_from_all", category, r.err)
    /\ UNCHANGED well_records

\* No list of the records is longer than MaxListLen.
ListsWithin(recs) ==
    \A i \in 1..Len(recs) : \A c \in DOMAIN recs[i].date_ranges :
        Len(recs[i].date_ranges[c]) <= MaxListLen

\* ------------------------------------------------------------------------
\* DateRangeGroup as a state machine
\* ------------------------------------------------------------------------
\* DateRangeGroup.__init__ without argument
DrgInit ==
    /\ drg_date_ranges = <<>>
    /\ drg_call = NoDrgCall

\* A call of DateRangeGroup.add_date_range with a DateRange.
drg_add_date_range(dr) ==
    /\ drg_date_ranges' = add_date_range(drg_date_ranges, dr)
    /\ drg_call' = [NoDrgCall EXCEPT !.op = "add_date_range",
                                      !.before = drg_date_ranges]

\* A call of DateRangeGroup.sort.
drg_sort ==
    /\ drg_date_ranges' = sort(drg_date_ranges)
    /\ drg_call' = [NoDrgCall EXCEPT !.op = "sort",
                                      !.before = drg_date_ranges]

\* A call of DateRangeGroup.merge_all(days_tolerance).
drg_merge_all(days_tolerance) ==
    /\ drg_date_ranges' = merge_all(drg_date_ranges, days_tolerance)
    /\ drg_call' = [NoDrgCall EXCEPT !.op = "merge_all",
                                      !.tol = days_tolerance,
                                      !.before = drg_date_ranges]

\* A call of DateRangeGroup.subtract_from_all(date_range).
drg_subtract_from_all(date_range) ==
    \E r \in {subtract_from_all(drg_date_ranges, date_range)} :
        /\ drg_date_ranges' = IF r.err = "ok" THEN r.val ELSE drg_date_ranges
        /\ drg_call' = [NoDrgCall EXCEPT !.op = "subtract_from_all",
                                          !.err = r.err,
                                          !.other = <<date_range>>,
                                          !.before = drg_date_ranges]

\* A call of DateRangeGroup.find_all_overlaps(other) on the group, with
\* another group whose list is other; val is the list of the new group.
drg_find_all_overlaps(other) ==
    /\ drg_call' = [NoDrgCall EXCEPT !.op = "find_all_overlaps",
                                      !.other = other,
                                      !.val = find_all_overlaps(drg_date_ranges,
                                                                other),
                                      !.before = drg_date_ranges]
    /\ UNCHANGED drg_date_ranges

\* A call of DateRangeGroup.get_shortest_and_longest_durations; val is the
\* 2-tuple returned.
drg_get_shortest_and_longest_durations ==
    /\ drg_call' =
          [NoDrgCall EXCEPT !.op = "get_shortest_and_longest_durations",
                            !.val = get_shortest_and_longest_durations(
                                        drg_date_ranges),
                            !.before = drg_date_ranges]
    /\ UNCHANGED drg_date_ranges

\* ------------------------------------------------------------------------
\* DateRange: two valid ranges and the calls on them
\* ------------------------------------------------------------------------
DrInit ==
    /\ dr_self \in Ranges
    /\ dr_other \in Ranges
    /\ dr_call = NoDrCall

\* A call of dr_self.subtract(dr_other).
dr_subtract ==
    LET r == subtract(dr_self, dr_other)
    IN  /\ dr_call' = [op |-> "subtract", args |-> <<>>,
                        err |-> r.err, val |-> r.val]
        /\ UNCHANGED <<dr_self, dr_other>>

\* A call of dr_self.find_overlap(dr_other).
dr_find_overlap ==
    LET r == find_overlap(dr_self, dr_other)
    IN  /\ dr_call' = [op |-> "find_overlap", args |-> <<>>,
                        err |-> r.err, val |-> r.val]
        /\ UNCHANGED <<dr_self, dr_other>>

\* A call of dr_self.merge_with(dr_other, days_tolerance).
dr_merge_with(days_tolerance) ==
    /\ dr_call' = [op |-> "merge_with", args |-> <<days_tolerance>>,
                    err |-> "ok",
                    val |-> merge_with(dr_self, dr_other, days_tolerance)]
    /\ UNCHANGED <<dr_self, dr_other>>

\* A call of dr_self.is_contiguous_with(dr_other, days_tolerance); val is
\* the list holding the boolean returned.
dr_is_contiguous_with(days_tolerance) ==
    /\ dr_call' = [op |-> "is_contiguous_with", args |-> <<days_tolerance>>,
                    err |-> "ok",
                    val |-> <<is_contiguous_with(dr_self, dr_other,
                                                 days_tolerance)>>]
    /\ UNCHANGED <<dr_self, dr_other>>

\* A call of DateRange(start_date, end_date) with any two dates; val is the
\* list holding the new range, empty when the constructor raises.
dr_construct(start_date, end_date) ==
    LET r == DateRangeInit(start_date, end_date)
    IN  /\ dr_call' = [op |-> "construct", args |-> <<start_date, end_date>>,
                        err |-> r.err,
                        val |-> IF r.err = "ok" THEN <<r.val>> ELSE <<>>]
        /\ UNCHANGED <<dr_self, dr_other>>

\* The part of the state a specification does not use stays as constructed.
DrIdle ==
    /\ dr_self = [start_date |-> 0, end_date |-> 0]
    /\ dr_other = [start_date |-> 0, end_date |-> 0]
    /\ dr_call = NoDrCall

\* ------------------------------------------------------------------------
\* WellRecord as a state machine
\* ------------------------------------------------------------------------
NoWrCall == [op |-> "init", category |-> "", val |-> <<>>, before |-> <<>>]

\* WellRecord.__init__: no category registered.
WrInit ==
    /\ wr_date_ranges = <<>>
    /\ wr_call = NoWrCall

\* The number of ranges registered on the record under test.
RECURSIVE TotalRanges(_, _)
TotalRanges(date_ranges, cats) ==
    IF cats = {} THEN 0
    ELSE LET c == CHOOSE x \in cats : TRUE
         IN  Len(date_ranges[c]) + TotalRanges(date_ranges, cats \ {c})

\* A call of WellRecord.register_date_range(date_range, category).
wr_register_date_range(date_range, category) ==
    /\ wr_date_ranges' = register_date_range(wr_date_ranges, date_range, category)
    /\ wr_call' = [op |-> "register_date_range", category |-> category,
                   val |-> <<>>, before |-> wr_date_ranges]

\* A call of WellRecord.register_empty_category(category).
wr_register_empty_category(category) ==
    /\ wr_date_ranges' = register_empty_category(wr_date_ranges, category)
    /\ wr_call' = [op |-> "register_empty_category", category |-> category,
                   val |-> <<>>, before |-> wr_date_ranges]

\* A call of WellRecord.registered_categories(); val is the set of the
\* names in the list returned.
wr_registered_categories ==
    /\ wr_call' = [op |-> "registered_categories", category |-> "",
                   val |-> registered_categories([date_ranges |-> wr_date_ranges]),
                   before |-> wr_date_ranges]
    /\ UNCHANGED wr_date_ranges

\* A call of WellRecord.date_ranges_by_category(category); val is the list
\* of the group returned.
wr_date_ranges_by_category(category) ==
    /\ wr_call' = [op |-> "date_ranges_by_category", category |-> category,
                   val |-> date_ranges_by_category(
                               [date_ranges |-> wr_date_ranges], category),
                   before |-> wr_date_ranges]
    /\ UNCHANGED wr_date_ranges

\* ------------------------------------------------------------------------
\* API numbers (utils/validate_api_num.py)
\* ------------------------------------------------------------------------
\* An API number is a string: a sequence of characters, the digits 0..9 and
\* the dash, which is written Dash.
Dash == 10

\* The keys of STATE_CODES: "01" .. "51", "55", "56", "60", "61".
STATE_CODES ==
    {<<n \div 10, n % 10>> : n \in (1..51) \cup {55, 56, 60, 61}}

\* str.split('-') from position i on, cur being the component read so far.
RECURSIVE SplitFrom(_, _, _)
SplitFrom(s, i, cur) ==
    IF i > Len(s) THEN <<cur>>
    ELSE IF s[i] = Dash THEN <<cur>> \o SplitFrom(s, i + 1, <<>>)
    ELSE SplitFrom(s, i + 1, Append(cur, s[i]))

\* validate_api_num for a string.
validate_api_num(api_num) ==
    LET components == SplitFrom(api_num, 1, <<>>)
    IN  IF Len(components) \notin {3, 5} THEN FALSE
        ELSE IF components[1] \notin STATE_CODES THEN FALSE
        ELSE IF Len(components[2]) # 3 \/ Len(components[3]) # 5 THEN FALSE
        ELSE IF Len(components) = 5
                /\ (Len(components[4]) # 2 \/ Len(components[5]) # 2)
             THEN FALSE
        ELSE TRUE

\* ------------------------------------------------------------------------
\* MongoDBWellRecordDataGateway over a collection of documents
\* ------------------------------------------------------------------------
\* A document is a dict: a function from its keys to their values. The
\* collection is a function from the _id of each stored document to the
\* document. A date of a WellRecord is None or <<d>>; a datetime of a
\* document is None or <<[date |-> d, hour |-> 0]>>. A well name is None
\* or <<name>>. An optional record is None or <<well_record>>.

\* The keys of the dict built by _well_record_to_dict, in insertion order.
DictKeys ==
    <<"_id", "well_name", "first_date", "last_date", "record_access_date",
      "date_ranges">>

\* datetime(date_val.year, date_val.month, date_val.day), None kept.
ToDatetime(date_val) ==
    IF date_val = None THEN None
    ELSE <<[date |-> date_val[1], hour |-> 0]>>

\* _convert_date for what a document holds: a datetime or None.
ConvertDate(d) ==
    IF d = None THEN None ELSE <<d[1].date>>

\* DateRange.__str__: the two dates around "::".
DateRangeStr(dr) == <<dr.start_date, dr.end_date>>

\* _default_daterange_parse_func: both halves parsed, then DateRange(...).
default_daterange_parse_func(date_str) ==
    DateRangeInit(date_str[1], date_str[2])

\* _well_record_to_dict
well_record_to_dict(well_record) ==
    IF well_record.api_num = None THEN Raise("ValueError")
    ELSE Ok([k \in {DictKeys[i] : i \in 1..Len(DictKeys)} |->
               CASE k = "_id" -> well_record.api_num
                 [] k = "well_name" -> well_record.well_name
                 [] k = "first_date" -> ToDatetime(well_record.first_date)
                 [] k = "last_date" -> ToDatetime(well_record.last_date)
                 [] k = "record_access_date" ->
                        ToDatetime(well_record.record_access_date)
                 [] k = "date_ranges" ->
                        [c \in DOMAIN well_record.date_ranges |->
                           [i \in 1..Len(well_record.date_ranges[c]) |->
                              DateRangeStr(well_record.date_ranges[c][i])]]])

\* dict.get(k, default)
Get(dict, k, default) == IF k \in DOMAIN dict THEN dict[k] ELSE default

\* _dict_to_well_record, the inner loop: the strings of one category from
\* index i on are parsed and registered.
RECURSIVE RegisterRawFrom(_, _, _, _)
RegisterRawFrom(date_ranges, category, date_ranges_raw, i) ==
    IF i > Len(date_ranges_raw) THEN Ok(date_ranges)
    ELSE LET dr == default_daterange_parse_func(date_ranges_raw[i])
         IN  IF dr.err # "ok" THEN Raise(dr.err)
             ELSE RegisterRawFrom(
                      register_date_range(date_ranges, dr.val, category),
                      category, date_ranges_raw, i + 1)

\* _dict_to_well_record, the outer loop over the categories still to do.
RECURSIVE RegisterCategories(_, _, _)
RegisterCategories(date_ranges, raw, todo) ==
    IF todo = {} THEN Ok(date_ranges)
    ELSE LET category == CHOOSE c \in todo : TRUE
             r == RegisterRawFrom(
                      register_empty_category(date_ranges, category),
                      category, raw[category], 1)
         IN  IF r.err # "ok" THEN r
             ELSE RegisterCategories(r.val, raw, todo \ {category})

\* _dict_to_well_record
dict_to_well_record(well_record_dict) ==
    LET raw == Get(well_record_dict, "date_ranges", <<>>)
        r   == RegisterCategories(<<>>, raw, DOMAIN raw)
    IN  IF r.err # "ok" THEN r
        ELSE Ok([api_num  |-> Get(well_record_dict, "_id", None),
                 well_name |-> Get(well_record_dict, "well_name", None),
                 first_date |->
                     ConvertDate(Get(well_record_dict, "first_date", None)),
                 last_date |->
                     ConvertDate(Get(well_record_dict, "last_date", None)),
                 record_access_date |->
                     ConvertDate(Get(well_record_dict, "record_access_date",
                                     None)),
                 date_ranges |-> r.val])

\* pymongo's insert_one: a document with a stored _id is refused.
insert_one(coll, doc) ==
    IF doc["_id"] \in DOMAIN coll THEN Raise("DuplicateKeyError")
    ELSE Ok([id \in DOMAIN coll \cup {doc["_id"]} |->
               IF id = doc["_id"] THEN doc ELSE coll[id]])

\* pymongo's update_one with a filter on _id and {"$set": set_vals}: the
\* keys of set_vals are set on the stored document; with upsert a missing
\* document is created from the filter and set_vals.
update_one(coll, id, set_vals, upsert) ==
    LET target == IF id \in DOMAIN coll THEN coll[id]
                  ELSE [k \in {"_id"} |-> id]
        doc == [k \in DOMAIN target \cup DOMAIN set_vals |->
                  IF k \in DOMAIN set_vals THEN set_vals[k] ELSE target[k]]
    IN  IF id \notin DOMAIN coll /\ ~upsert THEN coll
        ELSE [x \in DOMAIN coll \cup {id} |-> IF x = id THEN doc ELSE coll[x]]

\* pymongo's delete_one with a filter on _id.
delete_one(coll, id) == [x \in DOMAIN coll \ {id} |-> coll[x]]

\* MongoDBWellRecordDataGateway.insert: the outcome and the collection.
insert(coll, well_record) ==
    LET as_dict == well_record_to_dict(well_record)
    IN  IF as_dict.err # "ok" THEN Raise(as_dict.err)
        ELSE insert_one(coll, as_dict.val)

\* MongoDBWellRecordDataGateway.find: the optional record returned.
find(coll, api_num) ==
    IF api_num \notin DOMAIN coll THEN Ok(None)
    ELSE LET wr == dict_to_well_record(coll[api_num])
         IN  IF wr.err # "ok" THEN wr ELSE Ok(<<wr.val>>)

\* MongoDBWellRecordDataGateway.delete
delete(coll, api_num) == Ok(delete_one(coll, api_num))

\* The for loop of update from key i on: new_vals is assigned anew for
\* every key but "_id".
RECURSIVE NewValsFrom(_, _, _)
NewValsFrom(as_dict, i, new_vals) ==
    IF i > Len(DictKeys) THEN new_vals
    ELSE IF DictKeys[i] = "_id" THEN NewValsFrom(as_dict, i + 1, new_vals)
    ELSE NewValsFrom(as_dict, i + 1,
                     [k \in {DictKeys[i]} |-> as_dict[k]])

\* MongoDBWellRecordDataGateway.update: the outcome and the collection.
update(coll, well_record, upsert) ==
    LET as_dict == well_record_to_dict(well_record)
    IN  IF as_dict.err # "ok" THEN Raise(as_dict.err)
        ELSE Ok(update_one(coll, as_dict.val["_id"],
                           NewValsFrom(as_dict.val, 1, <<>>), upsert))

\* ------------------------------------------------------------------------
\* WellRecordController.get_well_record
\* ------------------------------------------------------------------------
\* Lines 87-92: too_old stays False when there is no record or it has no
\* record_access_date (AttributeError, TypeError).
TooOld(existing_record, max_record_age_in_days, today) ==
    IF existing_record = None THEN FALSE
    ELSE IF existing_record[1].record_access_date = None THEN FALSE
    ELSE today > existing_record[1].record_access_date[1]
                     + max_record_age_in_days

\* ------------------------------------------------------------------------
\* Gateway and controller as a state machine
\* ------------------------------------------------------------------------
\* Largest max_record_age_in_days passed to get_well_record.
MaxAge == 1

\* The number of get_well_record calls that can be in flight at a time
\* (the requests that the web application serves at once).
MaxRequests == 2

\* "05-001-00001" and "05-001-00002": wells of Colorado.
Colorado1 == <<0, 5, Dash, 0, 0, 1, Dash, 0, 0, 0, 0, 1>>
Colorado2 == <<0, 5, Dash, 0, 0, 1, Dash, 0, 0, 0, 0, 2>>
\* "49-001-00001": a valid number of Wyoming.
Wyoming1 == <<4, 9, Dash, 0, 0, 1, Dash, 0, 0, 0, 0, 1>>
\* "99-001-00001" (no such state) and "05-001" (two components).
NoState == <<9, 9, Dash, 0, 0, 1, Dash, 0, 0, 0, 0, 1>>
TooShort == <<0, 5, Dash, 0, 0, 1>>

\* The API numbers passed to get_well_record, the one that records are
\* passed to the gateway under, and the state codes that a collector is
\* registered for: Colorado and Wyoming.
ApiNums == {Colorado1, Wyoming1, NoState, TooShort}
StoredApiNums == {Colorado1}
StateCodes == {<<0, 5>>, <<4, 9>>}

\* The records passed to the gateway: either name, no dates or the dates
\* 0 and 1, accessed on the last day or without access date, and any
\* category map whose ranges start on day 0.
GatewayRecords ==
    {[api_num |-> a, well_name |-> <<n>>, first_date |-> p[1],
      last_date |-> p[2], record_access_date |-> r, date_ranges |-> m] :
        a \in StoredApiNums, n \in {"old name", "new name"},
        p \in {<<None, None>>, <<<<0>>, <<1>>>>},
        r \in {None, <<MaxDay>>},
        m \in {x \in CategoryMaps :
                  \A c \in DOMAIN x : \A i \in 1..Len(x[c]) :
                      x[c][i].start_date = 0}}

\* The records that the collectors return: a Colorado well under either
\* name, without access date or accessed on the first or on the last day,
\* and a Wyoming well accessed on the last day; no dates, the category
\* registered empty.
ControllerRecords ==
    {[api_num |-> p[1], well_name |-> <<p[2]>>, first_date |-> None,
      last_date |-> None, record_access_date |-> p[3],
      date_ranges |-> [c \in Categories |-> <<>>]] :
        p \in ({Colorado1} \X {"old name", "new name"}
                           \X {None, <<0>>, <<MaxDay>>})
                 \cup {<<Wyoming1, "new name", <<MaxDay>>>>}}

NoGwCall ==
    [op |-> "init", api_num |-> <<>>, arg |-> None, opts |-> <<>>,
     err |-> "ok", val |-> None, ops |-> <<>>, before |-> <<>>]

\* The frame of a get_well_record call: the line it waits at (pc), its
\* arguments, and its local variables too_old and new_record.
NoRequest ==
    [pc |-> "idle", api_num |-> <<>>, store_after |-> FALSE,
     too_old |-> FALSE, new_record |-> None]

\* An empty collection, and a controller constructed without collectors
\* (lines 23-26) that serves no request.
DbInit ==
    /\ collection = <<>>
    /\ gw_call = NoGwCall
    /\ collectors = {}
    /\ requests = [r \in 1..MaxRequests |-> NoRequest]

\* A call of gateway.insert(well_record).
gw_insert(well_record) ==
    /\ UNCHANGED ctl_vars
    /\ \E r \in {insert(collection, well_record)} :
        /\ collection' = IF r.err = "ok" THEN r.val ELSE collection
        /\ gw_call' = [NoGwCall EXCEPT !.op = "insert",
                                       !.api_num = well_record.api_num,
                                       !.arg = <<well_record>>,
                                       !.err = r.err,
                                       !.before = collection]

\* A call of gateway.find(api_num).
gw_find(api_num) ==
    /\ UNCHANGED ctl_vars
    /\ \E r \in {find(collection, api_num)} :
        /\ gw_call' = [NoGwCall EXCEPT !.op = "find",
                                       !.api_num = api_num,
                                       !.err = r.err,
                                       !.val = r.val,
                                       !.before = collection]
        /\ UNCHANGED collection

\* A call of gateway.delete(api_num).
gw_delete(api_num) ==
    /\ UNCHANGED ctl_vars
    /\ collection' = delete(collection, api_num).val
    /\ gw_call' = [NoGwCall EXCEPT !.op = "delete",
                                   !.api_num = api_num,
                                   !.before = collection]

\* A call of gateway.update(well_record, upsert).
gw_update(well_record, upsert) ==
    /\ UNCHANGED ctl_vars
    /\ \E r \in {update(collection, well_record, upsert)} :
        /\ collection' = IF r.err = "ok" THEN r.val ELSE collection
        /\ gw_call' = [NoGwCall EXCEPT !.op = "update",
                                       !.api_num = well_record.api_num,
                                       !.arg = <<well_record>>,
                                       !.opts = <<upsert>>,
                                       !.err = r.err,
                                       !.before = collection]

\* WellRecordController.register_collector(state_code, collector).
register_collector(state_code) ==
    /\ collectors' = collectors \cup {state_code}
    /\ gw_call' = [NoGwCall EXCEPT !.op = "register_collector",
                                   !.api_num = state_code]
    /\ UNCHANGED <<collection, requests>>

\* The call r of get_well_record returns v or raises e: its frame is
\* dropped and the call is recorded with its outcome, the gateway
\* operations it called and the collection before this last step.
Returns(r, frame, e, v, ops) ==
    /\ requests' = [requests EXCEPT ![r] = NoRequest]
    /\ gw_call' = [op |-> "get_well_record", api_num |-> frame.api_num,
                   arg |-> frame.new_record,
                   opts |-> <<frame.store_after, frame.too_old>>,
                   err |-> e, val |-> v, ops |-> ops, before |-> collection]

\* The call r of get_well_record goes on to its next waiting point.
Waits(r, frame) ==
    /\ requests' = [requests EXCEPT ![r] = frame]
    /\ gw_call' = [NoGwCall EXCEPT !.op = "get_well_record waits",
                                   !.api_num = frame.api_num]

\* get_well_record, lines 81-98: a new call r validates the API number,
\* asks the gateway for the stored record and returns it unless it is
\* missing or too old; today is date.today().
get_well_record_find(r, api_num, max_age, store_after, today) ==
    /\ requests[r].pc = "idle"
    /\ UNCHANGED <<collection, collectors>>
    /\ \E existing \in {IF validate_api_num(api_num)
                         THEN find(collection, api_num)
                         ELSE Raise("ValueError")} :
       \E frame \in {[pc |-> "collector", api_num |-> api_num,
                       store_after |-> store_after,
                       too_old |-> TooOld(existing.val, max_age, today),
                       new_record |-> None]} :
          IF ~validate_api_num(api_num)
          THEN Returns(r, [frame EXCEPT !.too_old = FALSE], "ValueError",
                       None, <<>>)
          ELSE IF existing.err # "ok"
          THEN Returns(r, frame, existing.err, None, <<"find">>)
          ELSE IF existing.val # None /\ ~frame.too_old
          THEN Returns(r, frame, "ok", existing.val, <<"find">>)
          ELSE Waits(r, frame)

\* get_well_record, lines 99-105: the collector of the state is looked up
\* in self.collectors as it is now.
get_well_record_collector(r) ==
    /\ requests[r].pc = "collector"
    /\ UNCHANGED <<collection, collectors>>
    /\ IF SubSeq(requests[r].api_num, 1, 2) \notin collectors
       THEN Returns(r, requests[r], "RuntimeError", None, <<"find">>)
       ELSE Waits(r, [requests[r] EXCEPT !.pc = "collect"])

\* get_well_record, lines 106-109 and 124: the collector returns new_record
\* (None or a record); it is returned at once unless it is to be stored.
get_well_record_collect(r, new_record) ==
    /\ requests[r].pc = "collect"
    /\ UNCHANGED <<collection, collectors>>
    /\ IF new_record # None /\ requests[r].store_after
       THEN Waits(r, [requests[r] EXCEPT !.pc = "insert",
                                         !.new_record = new_record])
       ELSE Returns(r, [requests[r] EXCEPT !.new_record = new_record], "ok",
                    new_record, <<"find">>)

\* get_well_record, lines 110 and 124: the collected record is inserted
\* into the collection as it is now, and returned.
get_well_record_insert(r) ==
    /\ requests[r].pc = "insert"
    /\ UNCHANGED collectors
    /\ \E stored \in {insert(collection, requests[r].new_record[1])} :
          IF stored.err # "ok"
          THEN /\ Returns(r, requests[r], stored.err, None,
                          <<"find", "insert">>)
               /\ UNCHANGED collection
          ELSE /\ Returns(r, requests[r], "ok", requests[r].new_record,
                          <<"find", "insert">>)
               /\ collection' = stored.val

\* ------------------------------------------------------------------------
\* Specifications
\* ------------------------------------------------------------------------
\* The well group: records are added and find_gaps is called.
Init == WgInit /\ DrgInit /\ DrIdle /\ WrInit /\ DbInit
Next ==
    \/ \E wr \in Addable(WellRecords) :
          /\ Len(well_records) < MaxWells
          /\ add_well_record(wr)
          /\ UNCHANGED <<drg_vars, dr_vars, wr_vars, db_vars>>
    \/ \E c \in Categories :
          /\ find_gaps_call(c)
          /\ ListsWithin(well_records')
          /\ UNCHANGED <<drg_vars, dr_vars, wr_vars, db_vars>>
    \/ \E j \in 1..Len(well_records) : \E dr \in Ranges : \E c \in Categories :
          /\ Len(HeldRanges(well_records[j].obj, c)) < MaxRanges
          /\ owner_register_date_range(well_records[j].obj, dr, c)
          /\ UNCHANGED <<drg_vars, dr_vars, wr_vars, db_vars>>
Spec == Init /\ [][Next]_vars

\* The well group and the owners of its objects: records are added,
\* find_gaps is called, and in between the owner of a held record and the
\* holder of the group that find_gaps returned call the methods of
\* WellRecord and DateRangeGroup that change them.
InitOwner == WgInit /\ DrgInit /\ DrIdle /\ WrInit /\ DbInit
NextOwner ==
    \/ \E wr \in Addable(OwnerRecords) :
          /\ Len(well_records) < MaxWells
          /\ add_well_record(wr)
          /\ UNCHANGED <<drg_vars, dr_vars, wr_vars, db_vars>>
    \/ \E c \in Categories :
          /\ find_gaps_call(c)
          /\ ListsWithin(well_records')
          /\ UNCHANGED <<drg_vars, dr_vars, wr_vars, db_vars>>
    \/ \E j \in 1..Len(well_records) : \E dr \in OwnerRanges : \E c \in Categories :
          /\ Len(HeldRanges(well_records[j].obj, c)) < MaxRanges
          /\ owner_register_date_range(well_records[j].obj, dr, c)
          /\ UNCHANGED <<drg_vars, dr_vars, wr_vars, db_vars>>
    \/ \E j \in 1..Len(well_records) : \E dr \in OwnerRanges : \E c \in Categories :
          /\ Len(HeldRanges(well_records[j].obj, c)) < MaxRanges
          /\ owner_add_date_range(well_records[j].obj, c, dr)
          /\ UNCHANGED <<drg_vars, dr_vars, wr_vars, db_vars>>
    \/ \E j \in 1..Len(well_records) : \E c \in Categories :
          /\ owner_register_empty_category(well_records[j].obj, c)
          /\ UNCHANGED <<drg_vars, dr_vars, wr_vars, db_vars>>
    \/ \E j \in 1..Len(well_records) :
       \E c \in Categories :
          /\ owner_sort(well_records[j].obj, c)
          /\ UNCHANGED <<drg_vars, dr_vars, wr_vars, db_vars>>
    \/ \E j \in 1..Len(well_records) :
       \E c \in Categories : \E tol \in Tolerances :
          /\ owner_merge_all(well_records[j].obj, c, tol)
          /\ UNCHANGED <<drg_vars, dr_vars, wr_vars, db_vars>>
    \/ \E j \in 1..Len(well_records) :
       \E c \in Categories : \E dr \in OwnerRanges :
          /\ owner_subtract_from_all(well_records[j].obj, c, dr)
          /\ ListsWithin(well_records')
          /\ UNCHANGED <<drg_vars, dr_vars, wr_vars, db_vars>>
    \/ \E c \in DOMAIN researched_gaps : \E dr \in OwnerRanges :
          /\ Len(CachedRanges(c)) < MaxRanges
          /\ gaps_add_date_range(c, dr)
          /\ UNCHANGED <<drg_vars, dr_vars, wr_vars, db_vars>>
    \/ \E c \in DOMAIN researched_gaps :
          /\ gaps_sort(c)
          /\ UNCHANGED <<drg_vars, dr_vars, wr_vars, db_vars>>
    \/ \E c \in DOMAIN researched_gaps : \E tol \in Tolerances :
          /\ gaps_merge_all(c, tol)
          /\ UNCHANGED <<drg_vars, dr_vars, wr_vars, db_vars>>
    \/ \E c \in DOMAIN researched_gaps : \E dr \in OwnerRanges :
          /\ gaps_subtract_from_all(c, dr)
          /\ Len(CachedRanges(c)') <= MaxListLen
          /\ UNCHANGED <<drg_vars, dr_vars, wr_vars, db_vars>>
SpecOwner == InitOwner /\ [][NextOwner]_vars

\* The well group with up to MaxWellsTrio records taken from TrioRecords.
InitTrio == WgInit /\ DrgInit /\ DrIdle /\ WrInit /\ DbInit
NextTrio ==
    \/ \E wr \in Addable(TrioRecords) :
          /\ Len(well_records) < MaxWellsTrio
          /\ add_well_record(wr)
          /\ UNCHANGED <<drg_vars, dr_vars, wr_vars, db_vars>>
    \/ \E c \in Categories :
          /\ find_gaps_call(c)
          /\ ListsWithin(well_records')
          /\ UNCHANGED <<drg_vars, dr_vars, wr_vars, db_vars>>
SpecTrio == InitTrio /\ [][NextTrio]_vars

\* One DateRangeGroup: ranges are added and the group operations called.
InitGroup == WgInit /\ DrgInit /\ DrIdle /\ WrInit /\ DbInit
NextGroup ==
    \/ \E dr \in Ranges :
          /\ Len(drg_date_ranges) < MaxLen
          /\ drg_add_date_range(dr)
          /\ UNCHANGED <<wg_vars, dr_vars, wr_vars, db_vars>>
    \/ drg_sort /\ UNCHANGED <<wg_vars, dr_vars, wr_vars, db_vars>>
    \/ \E t \in Tolerances :
          drg_merge_all(t) /\ UNCHANGED <<wg_vars, dr_vars, wr_vars, db_vars>>
    \/ \E dr \in Ranges :
          drg_subtract_from_all(dr) /\ UNCHANGED <<wg_vars, dr_vars, wr_vars, db_vars>>
    \/ \E other \in SeqsUpTo(Ranges, MaxOtherLen) :
          drg_find_all_overlaps(other) /\ UNCHANGED <<wg_vars, dr_vars, wr_vars, db_vars>>
    \/ drg_get_shortest_and_longest_durations
          /\ UNCHANGED <<wg_vars, dr_vars, wr_vars, db_vars>>
SpecGroup == InitGroup /\ [][NextGroup]_vars

\* Two DateRange values and the operations on them.
InitRange == WgInit /\ DrgInit /\ DrInit /\ WrInit /\ DbInit
NextRange ==
    \/ dr_subtract /\ UNCHANGED <<wg_vars, drg_vars, wr_vars, db_vars>>
    \/ dr_find_overlap /\ UNCHANGED <<wg_vars, drg_vars, wr_vars, db_vars>>
    \/ \E t \in Tolerances :
          dr_merge_with(t) /\ UNCHANGED <<wg_vars, drg_vars, wr_vars, db_vars>>
    \/ \E t \in Tolerances :
          dr_is_contiguous_with(t) /\ UNCHANGED <<wg_vars, drg_vars, wr_vars, db_vars>>
    \/ \E s \in Days : \E e \in Days :
          dr_construct(s, e) /\ UNCHANGED <<wg_vars, drg_vars, wr_vars, db_vars>>
SpecRange == InitRange /\ [][NextRange]_vars

\* The well group with two categories: records are added and find_gaps is
\* called for either category.
InitCache == WgInit /\ DrgInit /\ DrIdle /\ WrInit /\ DbInit
NextCache ==
    \/ \E wr \in Addable(CacheRecords) :
          /\ Len(well_records) < MaxWells
          /\ add_well_record(wr)
          /\ UNCHANGED <<drg_vars, dr_vars, wr_vars, db_vars>>
    \/ \E c \in CacheCategories :
          /\ find_gaps_call(c)
          /\ ListsWithin(well_records')
          /\ UNCHANGED <<drg_vars, dr_vars, wr_vars, db_vars>>
SpecCache == InitCache /\ [][NextCache]_vars

\* The well group: records with dates only are added and the overall first
\* and last dates are asked for.
InitDates == WgInit /\ DrgInit /\ DrIdle /\ WrInit /\ DbInit
NextDates ==
    \/ \E wr \in Addable(DateOnlyRecords) :
          /\ Len(well_records) < MaxWellsTrio
          /\ add_well_record(wr)
          /\ UNCHANGED <<drg_vars, dr_vars, wr_vars, db_vars>>
    \/ find_first_date_call /\ UNCHANGED <<drg_vars, dr_vars, wr_vars, db_vars>>
    \/ find_last_date_call /\ UNCHANGED <<drg_vars, dr_vars, wr_vars, db_vars>>
SpecDates == InitDates /\ [][NextDates]_vars

\* One WellRecord: categories and ranges are registered and read back.
InitRecord == WgInit /\ DrgInit /\ DrIdle /\ WrInit /\ DbInit
NextRecord ==
    \/ \E dr \in Ranges : \E c \in CacheCategories :
          /\ TotalRanges(wr_date_ranges, DOMAIN wr_date_ranges) < MaxRecordRanges
          /\ wr_register_date_range(dr, c)
          /\ UNCHANGED <<wg_vars, drg_vars, dr_vars, db_vars>>
    \/ \E c \in CacheCategories :
          /\ wr_register_empty_category(c)
          /\ UNCHANGED <<wg_vars, drg_vars, dr_vars, db_vars>>
    \/ wr_registered_categories
          /\ UNCHANGED <<wg_vars, drg_vars, dr_vars, db_vars>>
    \/ \E c \in CacheCategories :
          /\ wr_date_ranges_by_category(c)
          /\ UNCHANGED <<wg_vars, drg_vars, dr_vars, db_vars>>
SpecRecord == InitRecord /\ [][NextRecord]_vars

\* The well group: records with categories only are added and the shared
\* categories are asked for.
InitShared == WgInit /\ DrgInit /\ DrIdle /\ WrInit /\ DbInit
NextShared ==
    \/ \E wr \in Addable(SharedRecords) :
          /\ Len(well_records) < MaxWellsTrio
          /\ add_well_record(wr)
          /\ UNCHANGED <<drg_vars, dr_vars, wr_vars, db_vars>>
    \/ shared_categories_call
          /\ UNCHANGED <<drg_vars, dr_vars, wr_vars, db_vars>>
SpecShared == InitShared /\ [][NextShared]_vars

\* The gateway: records are inserted, found, updated and deleted.
InitGateway == WgInit /\ DrgInit /\ DrIdle /\ WrInit /\ DbInit
NextGateway ==
    \/ \E wr \in GatewayRecords :
          /\ gw_insert(wr)
          /\ UNCHANGED <<wg_vars, drg_vars, dr_vars, wr_vars>>
    \/ \E a \in {Colorado1, Colorado2} :
          /\ gw_find(a)
          /\ UNCHANGED <<wg_vars, drg_vars, dr_vars, wr_vars>>
    \/ \E a \in {Colorado1, Colorado2} :
          /\ gw_delete(a)
          /\ UNCHANGED <<wg_vars, drg_vars, dr_vars, wr_vars>>
    \/ \E wr \in GatewayRecords : \E upsert \in BOOLEAN :
          /\ gw_update(wr, upsert)
          /\ UNCHANGED <<wg_vars, drg_vars, dr_vars, wr_vars>>
SpecGateway == InitGateway /\ [][NextGateway]_vars

\* The controller over the gateway, serving up to MaxRequests calls of
\* get_well_record at a time: each call waits for the gateway's find, for
\* the collector and for the gateway's insert, and the other calls and
\* register_collector run in between.
InitController == WgInit /\ DrgInit /\ DrIdle /\ WrInit /\ DbInit
NextController ==
    \/ \E s \in StateCodes :
          /\ register_collector(s)
          /\ UNCHANGED <<wg_vars, drg_vars, dr_vars, wr_vars>>
    \/ \E r \in 1..MaxRequests : \E a \in ApiNums :
       \E age \in 0..MaxAge : \E store_after \in BOOLEAN : \E today \in Days :
          /\ get_well_record_find(r, a, age, store_after, today)
          /\ UNCHANGED <<wg_vars, drg_vars, dr_vars, wr_vars>>
    \/ \E r \in 1..MaxRequests :
          /\ get_well_record_collector(r)
          /\ UNCHANGED <<wg_vars, drg_vars, dr_vars, wr_vars>>
    \/ \E r \in 1..MaxRequests :
       \E new_record \in {None} \cup
                          {<<wr>> : wr \in {x \in ControllerRecords :
                                              x.api_num = requests[r].api_num}} :
          /\ get_well_record_collect(r, new_record)
          /\ UNCHANGED <<wg_vars, drg_vars, dr_vars, wr_vars>>
    \/ \E r \in 1..MaxRequests :
          /\ get_well_record_insert(r)
          /\ UNCHANGED <<wg_vars, drg_vars, dr_vars, wr_vars>>
SpecController == InitController /\ [][NextController]_vars

\* ------------------------------------------------------------------------
\* Vocabulary of the properties
\* ------------------------------------------------------------------------
\* The later start is at most t days after the earlier end.
Near(a, b, t) ==
    Max2(a.start_date, b.start_date) - Min2(a.end_date, b.end_date) <= t

\* The days on which a range can lie, and one day on either side.
DaysAround == (0 - 1)..(MaxDay + 1)

\* The list s without its k-th element.
RemoveAt(s, k) == SubSeq(s, 1, k - 1) \o SubSeq(s, k + 1, Len(s))

\* Record wr has both dates set / no date set / exactly one date set.
Dated(wr) == wr.first_date # None /\ wr.last_date # None
Undated(wr) == wr.first_date = None /\ wr.last_date = None
OneDateOnly(wr) == ~Dated(wr) /\ ~Undated(wr)

\* Every record of recs has registered category c.
AllRegistered(recs, c) ==
    \A i \in 1..Len(recs) : c \in DOMAIN recs[i].date_ranges

\* Minimum first_date and maximum last_date over records that all have
\* both dates set.
MinFirst(recs) ==
    CHOOSE m \in {recs[i].first_date[1] : i \in 1..Len(recs)} :
        \A i \in 1..Len(recs) : m <= recs[i].first_date[1]
MaxLast(recs) ==
    CHOOSE m \in {recs[i].last_date[1] : i \in 1..Len(recs)} :
        \A i \in 1..Len(recs) : m >= recs[i].last_date[1]

\* Day d is a hole of record wr for category c within the span lo..hi: it
\* lies in one of the record's ranges, or before the record's first date,
\* or after its last date.
HoleOf(wr, c, d, lo, hi) ==
    \/ Covers(wr.date_ranges[c], d)
    \/ lo <= d /\ d < wr.first_date[1]
    \/ wr.last_date[1] < d /\ d <= hi

\* The last call was find_gaps.
FindGapsCalled == wg_call.op = "find_gaps"

\* ------------------------------------------------------------------------
\* Properties of DateRange (SpecRange)
\* ------------------------------------------------------------------------
\* C3: for all valid ranges a and b, a.subtract(b) returns (it does not
\* fail) and the ranges it returns cover a day d exactly when d is in a and
\* not in b.
C3_SubtractPointSet ==
    dr_call.op = "subtract" =>
        /\ dr_call.err = "ok"
        /\ \A d \in DaysAround :
              Covers(dr_call.val, d) <=>
                  (InRange(d, dr_self) /\ ~InRange(d, dr_other))

\* C10: for all valid ranges a and b, a.find_overlap(b) is None exactly when
\* a and b share no day, and otherwise is the range
\* [max(a.start, b.start), min(a.end, b.end)].
C10_FindOverlapExact ==
    dr_call.op = "find_overlap" =>
        /\ dr_call.err = "ok"
        /\ (dr_call.val = <<>>) <=> ~ShareDay(dr_self, dr_other)
        /\ dr_call.val # <<>> =>
              dr_call.val =
                  <<[start_date |-> Max2(dr_self.start_date, dr_other.start_date),
                     end_date   |-> Min2(dr_self.end_date, dr_other.end_date)]>>

\* A partial overlap (neither range contains the other) was computed.
C10_Witness ==
    /\ dr_call.op = "find_overlap"
    /\ dr_call.val # <<>>
    /\ dr_self.start_date < dr_other.start_date
    /\ dr_self.end_date < dr_other.end_date

\* C14: when self encompasses other (self.start <= other.start and
\* other.end <= self.end) and other does not encompass self,
\* self.subtract(other) returns exactly the two ranges
\* [self.start, other.start - 1] and [other.end + 1, self.end], in that
\* order.
C14_SubtractSplitsInTwo ==
    ( /\ dr_call.op = "subtract"
      /\ dr_self.start_date <= dr_other.start_date
      /\ dr_other.end_date <= dr_self.end_date
      /\ ~( dr_other.start_date <= dr_self.start_date
            /\ dr_self.end_date <= dr_other.end_date ) )
    =>
    /\ dr_call.err = "ok"
    /\ dr_call.val =
          <<[start_date |-> dr_self.start_date,
             end_date   |-> dr_other.start_date - 1],
            [start_date |-> dr_other.end_date + 1,
             end_date   |-> dr_self.end_date]>>

\* C15: for all valid ranges a and b and every tolerance t >= 0: when a is
\* contiguous to b within t, a.merge_with(b, t) returns exactly one range,
\* [min(a.start, b.start), max(a.end, b.end)], whose duration in days is at
\* least the larger of the two durations; otherwise it returns [a, b], in
\* that order.
C15_MergeWithExact ==
    dr_call.op = "merge_with" =>
        IF Near(dr_self, dr_other, dr_call.args[1])
        THEN /\ dr_call.val =
                  <<[start_date |-> Min2(dr_self.start_date, dr_other.start_date),
                     end_date   |-> Max2(dr_self.end_date, dr_other.end_date)]>>
             /\ duration_in_days(dr_call.val[1]) >=
                  Max2(duration_in_days(dr_self), duration_in_days(dr_other))
        ELSE dr_call.val = <<dr_self, dr_other>>

\* Two ranges that share no day but are one day apart were merged, and the
\* merged range is longer than both.
C15_Witness ==
    /\ dr_call.op = "merge_with"
    /\ dr_call.args = <<1>>
    /\ ~ShareDay(dr_self, dr_other)
    /\ dr_other.end_date < dr_self.start_date
    /\ Len(dr_call.val) = 1
    /\ duration_in_days(dr_call.val[1]) > duration_in_days(dr_self)
    /\ duration_in_days(dr_call.val[1]) > duration_in_days(dr_other)

\* C16: for all valid ranges a, b and every tolerance t >= 0,
\* a.is_contiguous_with(b, t) equals b.is_contiguous_with(a, t), and is
\* true exactly when the later start is at most t days after the earlier
\* end; with t = 0 it is true exactly when the ranges share a day.
C16_ContiguousSymmetric ==
    dr_call.op = "is_contiguous_with" =>
        /\ dr_call.val[1] =
              is_contiguous_with(dr_other, dr_self, dr_call.args[1])
        /\ dr_call.val[1] <=> Near(dr_self, dr_other, dr_call.args[1])
        /\ dr_call.args[1] = 0 =>
              (dr_call.val[1] <=> ShareDay(dr_self, dr_other))

\* The receiver lies strictly inside the argument (only the second test of
\* the code can succeed) and the answer is True.
C16_Witness ==
    /\ dr_call.op = "is_contiguous_with"
    /\ dr_other.start_date < dr_self.start_date
    /\ dr_self.end_date < dr_other.end_date
    /\ dr_call.val = <<TRUE>>

\* ------------------------------------------------------------------------
\* Properties of DateRangeGroup (SpecGroup)
\* ------------------------------------------------------------------------
\* C2: after merge_all(days_tolerance) no two members of the group are
\* contiguous within days_tolerance (with tolerance 0: no two members share
\* a day).
C2_MergeAllReduced ==
    drg_call.op = "merge_all" =>
        \A i \in 1..Len(drg_date_ranges) : \A j \in 1..Len(drg_date_ranges) :
            i < j => ~Near(drg_date_ranges[i], drg_date_ranges[j], drg_call.tol)

\* C9: merge_all is idempotent: a second merge_all with the same tolerance
\* leaves the list produced by the first unchanged.
C9_MergeAllIdempotent ==
    drg_call.op = "merge_all" =>
        merge_all(drg_date_ranges, drg_call.tol) = drg_date_ranges

\* The number of times range r occurs in the list s.
Count(s, r) == Cardinality({i \in 1..Len(s) : s[i] = r})

\* The ranges that occur in the list s.
Members(s) == {s[i] : i \in 1..Len(s)}

\* The list is in the order of sort: end date ascending, then start date
\* ascending.
Sorted(s) ==
    \A i \in 1..Len(s) : \A j \in 1..Len(s) :
        i < j =>
            \/ s[i].end_date < s[j].end_date
            \/ /\ s[i].end_date = s[j].end_date
               /\ s[i].start_date <= s[j].start_date

\* The last call on the group was op.
DrgCalled(op) == drg_call.op = op

\* C11: find_all_overlaps is commutative: g1.find_all_overlaps(g2) and
\* g2.find_all_overlaps(g1) contain the same ranges, each the same number
\* of times.
C11_OverlapsCommutative ==
    DrgCalled("find_all_overlaps") =>
        \E rev \in {find_all_overlaps(drg_call.other, drg_call.before)} :
            \A r \in Members(drg_call.val) \cup Members(rev) :
                Count(drg_call.val, r) = Count(rev, r)

\* Two different groups of two or more ranges with two or more overlaps.
C11_Witness ==
    /\ DrgCalled("find_all_overlaps")
    /\ Len(drg_call.before) >= 2
    /\ Len(drg_call.other) >= 2
    /\ Members(drg_call.before) # Members(drg_call.other)
    /\ Len(drg_call.val) >= 2

\* C12: the ranges returned by g1.find_all_overlaps(g2) cover a day exactly
\* when some range of g1 and some range of g2 cover it; when either group
\* is empty the result is empty.
C12_OverlapsPointSet ==
    DrgCalled("find_all_overlaps") =>
        /\ \A d \in DaysAround :
              Covers(drg_call.val, d) <=>
                  (Covers(drg_call.before, d) /\ Covers(drg_call.other, d))
        /\ (drg_call.before = <<>> \/ drg_call.other = <<>>) =>
              drg_call.val = <<>>

\* Three ranges against two: some day of g1 is in the result, another day
\* of g1 is not, and the second range of g2 contributes a day.
C12_Witness ==
    /\ DrgCalled("find_all_overlaps")
    /\ Len(drg_call.before) = 3
    /\ Len(drg_call.other) = 2
    /\ drg_call.val # <<>>
    /\ \E d \in Days : Covers(drg_call.before, d) /\ ~Covers(drg_call.val, d)
    /\ \E d \in Days :
          /\ Covers(drg_call.val, d)
          /\ ~InRange(d, drg_call.other[1])

\* C18: get_shortest_and_longest_durations returns (min, max) of
\* duration_in_days over the members: for a non-empty group the smallest
\* member duration (at least 1) and the largest; (0, 0) for an empty group.
C18_ShortestAndLongest ==
    DrgCalled("get_shortest_and_longest_durations") =>
        IF drg_call.before = <<>> THEN drg_call.val = <<0, 0>>
        ELSE /\ drg_call.val[1] >= 1
             /\ \E i \in 1..Len(drg_call.before) :
                   drg_call.val[1] = duration_in_days(drg_call.before[i])
             /\ \A i \in 1..Len(drg_call.before) :
                   drg_call.val[1] <= duration_in_days(drg_call.before[i])
             /\ \E i \in 1..Len(drg_call.before) :
                   drg_call.val[2] = duration_in_days(drg_call.before[i])
             /\ \A i \in 1..Len(drg_call.before) :
                   drg_call.val[2] >= duration_in_days(drg_call.before[i])

\* C19: after group.subtract_from_all(r) the group covers exactly the days
\* it covered before that are not in r, no member shares a day with r, and
\* the members are in sorted order (end date ascending, then start date
\* ascending).
C19_SubtractFromAllPointSet ==
    DrgCalled("subtract_from_all") =>
        /\ drg_call.err = "ok"
        /\ \A d \in DaysAround :
              Covers(drg_date_ranges, d) <=>
                  (Covers(drg_call.before, d) /\ ~InRange(d, drg_call.other[1]))
        /\ \A i \in 1..Len(drg_date_ranges) :
              ~ShareDay(drg_date_ranges[i], drg_call.other[1])
        /\ Sorted(drg_date_ranges)

\* ------------------------------------------------------------------------
\* Properties of WellGroup.find_gaps (Spec, SpecTrio)
\* ------------------------------------------------------------------------
\* C1: when every record has the category registered and both dates set,
\* find_gaps returns, and the ranges it returns cover a day d exactly when d
\* is a hole of every record: in one of the record's own ranges, or from the
\* overall first date up to the day before the record's first date, or from
\* the day after the record's last date up to the overall last date.
C1_FindGapsPointSet ==
    ( /\ FindGapsCalled
      /\ Len(wg_call.before) > 0
      /\ AllRegistered(wg_call.before, wg_call.category)
      /\ \A i \in 1..Len(wg_call.before) : Dated(wg_call.before[i]) )
    =>
    /\ wg_call.err = "ok"
    /\ \A d \in DaysAround :
          Covers(wg_call.val, d) <=>
              \A i \in 1..Len(wg_call.before) :
                  HoleOf(wg_call.before[i], wg_call.category, d,
                         MinFirst(wg_call.before), MaxLast(wg_call.before))

\* Three dated records, one of them padded on both sides, with a shared gap
\* that is neither empty nor the whole span.
C1_Witness ==
    /\ FindGapsCalled
    /\ wg_call.err = "ok"
    /\ Len(wg_call.before) = 3
    /\ AllRegistered(wg_call.before, wg_call.category)
    /\ \A i \in 1..3 : Dated(wg_call.before[i])
    /\ \E i \in 1..3 :
          /\ MinFirst(wg_call.before) < wg_call.before[i].first_date[1]
          /\ wg_call.before[i].last_date[1] < MaxLast(wg_call.before)
    /\ \A i \in 1..3 : wg_call.before[i].date_ranges[wg_call.category] # <<>>
    /\ wg_call.val # <<>>
    /\ \E d \in Days : ~Covers(wg_call.val, d)

\* Record wr has category c registered with no range.
EmptyFor(wr, c) == c \in DOMAIN wr.date_ranges /\ wr.date_ranges[c] = <<>>

\* C4 as stated: when a record of the group has the category registered
\* with an empty gap set, whatever its dates and its position, a find_gaps
\* that returns returns an empty result.
C4_EmptyWellForcesEmpty ==
    ( /\ FindGapsCalled
      /\ wg_call.err = "ok"
      /\ \E i \in 1..Len(wg_call.before) :
            EmptyFor(wg_call.before[i], wg_call.category) )
    => wg_call.val = <<>>

\* Record i of recs has both dates set and they are the overall first and
\* last dates of the group, so find_gaps adds no synthetic gap to it.
SpansGroup(recs, i) ==
    /\ Dated(recs[i])
    /\ \A j \in 1..Len(recs) :
          /\ recs[j].first_date # None =>
                recs[i].first_date[1] <= recs[j].first_date[1]
          /\ recs[j].last_date # None =>
                recs[i].last_date[1] >= recs[j].last_date[1]

\* C4, amended: when a record of the group has the category registered with
\* an empty gap set, has both dates set, and its dates are the overall first
\* and last dates of the group, a find_gaps that returns returns an empty
\* result, whatever the record's position and the other records' gaps.
C4_EmptySpanningWellForcesEmpty ==
    ( /\ FindGapsCalled
      /\ wg_call.err = "ok"
      /\ \E i \in 1..Len(wg_call.before) :
            /\ EmptyFor(wg_call.before[i], wg_call.category)
            /\ SpansGroup(wg_call.before, i) )
    => wg_call.val = <<>>

\* The empty, spanning record comes last, after two dated records with gaps
\* that share a day.
C4_Witness ==
    /\ FindGapsCalled
    /\ wg_call.err = "ok"
    /\ Len(wg_call.before) = 3
    /\ EmptyFor(wg_call.before[3], wg_call.category)
    /\ SpansGroup(wg_call.before, 3)
    /\ \A i \in 1..2 :
          /\ Dated(wg_call.before[i])
          /\ wg_call.before[i].date_ranges[wg_call.category] # <<>>
    /\ ShareDay(wg_call.before[1].date_ranges[wg_call.category][1],
                wg_call.before[2].date_ranges[wg_call.category][1])
    /\ wg_call.val = <<>>

\* C5: a record with first_date and last_date both None and the category
\* registered contributes no constraint: find_gaps has the same outcome
\* (the same ranges, or the same error) as on the group without that record,
\* wherever the record stands in the list.
C5_UndatedRecordNoConstraint ==
    FindGapsCalled =>
        \A k \in 1..Len(wg_call.before) :
            ( /\ Undated(wg_call.before[k])
              /\ wg_call.category \in DOMAIN wg_call.before[k].date_ranges )
            =>
            \E r \in {find_gaps(RemoveAt(wg_call.before, k), wg_call.category)} :
                /\ wg_call.err = r.err
                /\ wg_call.val = r.gaps

\* The undated record stands first, before two dated records whose shared
\* gap is not empty.
C5_Witness ==
    /\ FindGapsCalled
    /\ wg_call.err = "ok"
    /\ Len(wg_call.before) = 3
    /\ Undated(wg_call.before[1])
    /\ Dated(wg_call.before[2]) /\ Dated(wg_call.before[3])
    /\ wg_call.val # <<>>

\* C6: find_gaps fails with KeyError exactly when some record of the group
\* has not registered the category; the check comes before the validation
\* of the dates and before any intersection step (no record has been
\* touched when it fails).
C6_KeyErrorIffUnregistered ==
    FindGapsCalled =>
        /\ (wg_call.err = "KeyError") <=>
              ~AllRegistered(wg_call.before, wg_call.category)
        /\ wg_call.err = "KeyError" => well_records = wg_call.before

\* KeyError although an earlier record of the list has only one date set.
C6_Witness ==
    /\ FindGapsCalled
    /\ wg_call.err = "KeyError"
    /\ Len(wg_call.before) = 2
    /\ OneDateOnly(wg_call.before[1])
    /\ wg_call.category \in DOMAIN wg_call.before[1].date_ranges
    /\ wg_call.category \notin DOMAIN wg_call.before[2].date_ranges

\* C7: on a group in which every record has the category registered,
\* find_gaps fails with ValueError whenever some record has exactly one of
\* first_date / last_date set, whatever its position.
C7_OneDateAlwaysFails ==
    ( /\ FindGapsCalled
      /\ AllRegistered(wg_call.before, wg_call.category)
      /\ \E i \in 1..Len(wg_call.before) : OneDateOnly(wg_call.before[i]) )
    => wg_call.err = "ValueError"

\* C8: find_gaps leaves every record of the group unchanged: each record's
\* list for every category holds the ranges it held before the call.
C8_RecordsUnchanged ==
    FindGapsCalled => well_records = wg_call.before

\* The list of the group that cache holds for category c, the records
\* being recs (an entry shares the list of record alias, or owns its list).
EntryRanges(cache, recs, c) ==
    IF cache[c].alias = 0 THEN cache[c].date_ranges
    ELSE recs[cache[c].alias].date_ranges[c]

\* C13: after any sequence of add_well_record and find_gaps calls,
\* researched_gaps has exactly one entry for each category for which a
\* find_gaps call has returned, and the entry of a category is the group
\* returned by the most recent find_gaps call that returned for it: the
\* cache starts empty; a find_gaps call that returns stores the group it
\* returns under its category and leaves the other entries alone; every
\* other call (add_well_record, a find_gaps that raises) leaves the cache
\* as it is.
C13_CacheHoldsLastReturned ==
    /\ researched_gaps = <<>>
    /\ [][ IF wg_call'.op = "find_gaps" /\ wg_call'.err = "ok"
           THEN /\ DOMAIN researched_gaps' =
                     DOMAIN researched_gaps \cup {wg_call'.category}
                /\ EntryRanges(researched_gaps', well_records',
                               wg_call'.category) = wg_call'.val
                /\ \A c \in DOMAIN researched_gaps \ {wg_call'.category} :
                      researched_gaps'[c] = researched_gaps[c]
           ELSE researched_gaps' = researched_gaps ]_vars

\* Both categories have been answered, the entry of "test" is not empty,
\* and the last call was a find_gaps that raised.
C13_Witness ==
    /\ DOMAIN researched_gaps = CacheCategories
    /\ CachedRanges("test") # <<>>
    /\ FindGapsCalled
    /\ wg_call.err # "ok"
    /\ Len(well_records) = MaxWells

\* ------------------------------------------------------------------------
\* Properties of WellGroup.find_first_date / find_last_date (SpecDates)
\* ------------------------------------------------------------------------
\* The first dates and the last dates that are set in the records recs.
FirstDatesSet(recs) ==
    {recs[i].first_date[1] : i \in {k \in 1..Len(recs) : recs[k].first_date # None}}
LastDatesSet(recs) ==
    {recs[i].last_date[1] : i \in {k \in 1..Len(recs) : recs[k].last_date # None}}

\* C20: find_first_date returns the minimum first_date over the records
\* whose first_date is set and find_last_date the maximum last_date over
\* the records whose last_date is set, whatever the order of the records
\* and wherever the records without dates stand; each returns None exactly
\* when no record has that date set.
C20_FirstAndLastDate ==
    /\ wg_call.op = "find_first_date" =>
          IF FirstDatesSet(wg_call.before) = {} THEN wg_call.val = None
          ELSE /\ wg_call.val # None
               /\ wg_call.val[1] \in FirstDatesSet(wg_call.before)
               /\ \A d \in FirstDatesSet(wg_call.before) : wg_call.val[1] <= d
    /\ wg_call.op = "find_last_date" =>
          IF LastDatesSet(wg_call.before) = {} THEN wg_call.val = None
          ELSE /\ wg_call.val # None
               /\ wg_call.val[1] \in LastDatesSet(wg_call.before)
               /\ \A d \in LastDatesSet(wg_call.before) : wg_call.val[1] >= d

\* Three records: the first has no first_date, the second a later one than
\* the third, and the third's is returned.
C20_Witness ==
    /\ wg_call.op = "find_first_date"
    /\ Len(wg_call.before) = 3
    /\ wg_call.before[1].first_date = None
    /\ wg_call.before[2].first_date # None
    /\ wg_call.before[3].first_date # None
    /\ wg_call.before[3].first_date[1] < wg_call.before[2].first_date[1]
    /\ wg_call.val = wg_call.before[3].first_date

\* ------------------------------------------------------------------------
\* The invariant of DateRange (every specification)
\* ------------------------------------------------------------------------
\* Every range of the list s has start_date <= end_date.
AllValid(s) == \A i \in 1..Len(s) : s[i].start_date <= s[i].end_date

\* C17: DateRange(start_date, end_date) fails exactly when
\* start_date > end_date (a one-day range is accepted, and the dates are
\* kept as given, never swapped); so every range that exists satisfies
\* start_date <= end_date: the ranges returned by merge_with, subtract and
\* find_overlap, the members of a group after sort, merge_all and
\* subtract_from_all, the ranges returned by find_all_overlaps and by
\* find_gaps, and the ranges of the records and of the cache.
C17_RangesValid ==
    /\ dr_call.op = "construct" =>
          /\ (dr_call.err = "ValueError") <=> dr_call.args[1] > dr_call.args[2]
          /\ dr_call.err # "ValueError" =>
                /\ dr_call.err = "ok"
                /\ dr_call.val = <<[start_date |-> dr_call.args[1],
                                     end_date   |-> dr_call.args[2]]>>
    /\ dr_call.op \in {"construct", "merge_with", "subtract", "find_overlap"}
          => AllValid(dr_call.val)
    /\ AllValid(drg_date_ranges)
    /\ DrgCalled("find_all_overlaps") => AllValid(drg_call.val)
    /\ \A i \in 1..Len(well_records) :
          \A c \in DOMAIN well_records[i].date_ranges :
              AllValid(well_records[i].date_ranges[c])
    /\ FindGapsCalled => AllValid(wg_call.val)
    /\ \A c \in DOMAIN researched_gaps : AllValid(researched_gaps[c].date_ranges)

\* A one-day range (start_date = end_date) was constructed.
C17_Witness ==
    /\ dr_call.op = "construct"
    /\ dr_call.args[1] = dr_call.args[2]
    /\ dr_call.err = "ok"
    /\ Len(dr_call.val) = 1

\* ------------------------------------------------------------------------
\* Properties of WellRecord (SpecRecord)
\* ------------------------------------------------------------------------
\* The last call on the record was a registration.
Registering(call) ==
    call.op \in {"register_date_range", "register_empty_category"}

\* C21: a category is registered exactly when register_empty_category or
\* register_date_range has been called for it (none is at construction,
\* each such call registers its category, no other call registers or
\* unregisters one); register_empty_category on an already registered
\* category changes nothing; registered_categories() lists every
\* registered category, the explicitly empty ones included;
\* date_ranges_by_category on an unregistered category returns an empty
\* group and does not register the category.
C21_RegisteredIffCalled ==
    /\ DOMAIN wr_date_ranges = {}
    /\ [][ /\ Registering(wr_call') =>
                 DOMAIN wr_date_ranges' =
                     DOMAIN wr_date_ranges \cup {wr_call'.category}
           /\ ~Registering(wr_call') => wr_date_ranges' = wr_date_ranges
           /\ wr_call'.op = "register_empty_category" =>
                 /\ \A c \in DOMAIN wr_date_ranges :
                       wr_date_ranges'[c] = wr_date_ranges[c]
                 /\ wr_call'.category \notin DOMAIN wr_date_ranges =>
                       wr_date_ranges'[wr_call'.category] = <<>>
           /\ wr_call'.op = "registered_categories" =>
                 wr_call'.val = DOMAIN wr_date_ranges
           /\ ( /\ wr_call'.op = "date_ranges_by_category"
                /\ wr_call'.category \notin DOMAIN wr_date_ranges ) =>
                 wr_call'.val = <<>> ]_vars

\* register_empty_category was called on a category that holds a range,
\* another category being registered empty, and the range is still there.
C21_Witness ==
    /\ wr_call.op = "register_empty_category"
    /\ wr_call.category \in DOMAIN wr_call.before
    /\ wr_call.before[wr_call.category] # <<>>
    /\ wr_date_ranges[wr_call.category] # <<>>
    /\ \E c \in DOMAIN wr_date_ranges : wr_date_ranges[c] = <<>>

\* C24: sort() orders the members by end date ascending and, among members
\* with equal end date, by start date ascending, and it only reorders the
\* members: every range occurs in the group as often as before.
C24_SortOrdersByEndThenStart ==
    DrgCalled("sort") =>
        /\ Sorted(drg_date_ranges)
        /\ Len(drg_date_ranges) = Len(drg_call.before)
        /\ \A r \in Members(drg_date_ranges) \cup Members(drg_call.before) :
              Count(drg_date_ranges, r) = Count(drg_call.before, r)

\* sort was called on a group that was out of order, with two members
\* ending on the same day but starting on different days, and a member
\* that starts earlier and ends later than another.
C24_Witness ==
    /\ DrgCalled("sort")
    /\ ~Sorted(drg_call.before)
    /\ \E a \in Members(drg_date_ranges) : \E b \in Members(drg_date_ranges) :
          a.end_date = b.end_date /\ a.start_date < b.start_date
    /\ \E a \in Members(drg_date_ranges) : \E b \in Members(drg_date_ranges) :
          a.start_date < b.start_date /\ a.end_date > b.end_date

\* C30: add_well_record only appends the record to well_records: the
\* records already in the group are unchanged and stay where they were,
\* the list is one longer, and researched_gaps keeps every entry, each
\* with the ranges it had (a reader of researched_gaps sees the result
\* cached before the addition); it gains no entry either.
C30_AddOnlyAppends ==
    [][ wg_call'.op = "add_well_record" =>
          /\ Len(well_records') = Len(well_records) + 1
          /\ SubSeq(well_records', 1, Len(well_records)) = well_records
          /\ researched_gaps' = researched_gaps
          /\ \A c \in DOMAIN researched_gaps :
                EntryRanges(researched_gaps', well_records', c) =
                    EntryRanges(researched_gaps, well_records, c) ]_vars

\* A record was added to a group whose cache holds a non-empty result of
\* an earlier find_gaps, and the cache still holds it.
C30_Witness ==
    /\ wg_call.op = "add_well_record"
    /\ wg_call.before # <<>>
    /\ \E c \in DOMAIN researched_gaps :
          EntryRanges(researched_gaps, well_records, c) # <<>>

\* C23: find_gaps is repeatable: when find_gaps(category) has returned, a
\* second call on the same group, the records not having been touched in
\* between, returns too, and returns the same sequence of ranges.
C23_FindGapsRepeatable ==
    (FindGapsCalled /\ wg_call.err = "ok") =>
        \E r \in {find_gaps(well_records, wg_call.category)} :
            /\ r.err = "ok"
            /\ r.gaps = wg_call.val

\* Range b starts the day after range a ends.
Adjacent(a, b) == b.start_date = a.end_date + 1

\* No two ranges of the list share a day, and no two are adjacent.
Reduced(s) ==
    \A i \in 1..Len(s) : \A j \in 1..Len(s) :
        i # j => ~ShareDay(s[i], s[j]) /\ ~Adjacent(s[i], s[j])

\* C27: the result of find_gaps(category) is in reduced form for every
\* well group, a group of one well included: no two returned ranges share
\* a day and no two are adjacent.
C27_GapsReduced ==
    (FindGapsCalled /\ wg_call.err = "ok") => Reduced(wg_call.val)

\* C28: when find_gaps(category) fails, with KeyError (missing category)
\* or with ValueError (inconsistent record), researched_gaps is exactly as
\* it was before the call: it has the same entries, and every entry holds
\* the ranges it held.
C28_FailureKeepsCache ==
    [][ (wg_call'.op = "find_gaps" /\ wg_call'.err # "ok") =>
          /\ researched_gaps' = researched_gaps
          /\ \A c \in DOMAIN researched_gaps :
                EntryRanges(researched_gaps', well_records', c) =
                    EntryRanges(researched_gaps, well_records, c) ]_vars

\* The lists that hold the elements of the list s in another order.
Reorderings(s) ==
    {[i \in 1..Len(s) |-> s[f[i]]] :
        f \in {g \in [1..Len(s) -> 1..Len(s)] :
                  \A i \in 1..Len(s) : \A j \in 1..Len(s) :
                      g[i] = g[j] => i = j}}

\* C29: the result of find_gaps(category) does not depend on the order in
\* which the records were added: on every permutation of the records
\* find_gaps has the same outcome (it returns, or fails with the same
\* error), and when it returns, the ranges returned cover the same days.
C29_OrderIndependent ==
    FindGapsCalled =>
        \A p \in Reorderings(wg_call.before) :
            \E r \in {find_gaps(p, wg_call.category)} :
                /\ r.err = wg_call.err
                /\ r.err = "ok" =>
                      \A d \in DaysAround :
                          Covers(r.gaps, d) <=> Covers(wg_call.val, d)

\* The place of a category name in Python's string order.
Position(c) == CHOOSE k \in 1..Len(PyStringOrder) : PyStringOrder[k] = c

\* C25: shared_categories() returns, sorted, exactly the categories
\* registered on every record of the group, and the empty list for a group
\* without records; so find_gaps called with a returned category does not
\* fail with KeyError (the missing-category error).
C25_SharedCategories ==
    wg_call.op = "shared_categories" =>
        /\ wg_call.before = <<>> => wg_call.val = <<>>
        /\ wg_call.before # <<>> =>
              {wg_call.val[k] : k \in 1..Len(wg_call.val)} =
                  {c \in SharedCategories : AllRegistered(wg_call.before, c)}
        /\ \A i \in 1..Len(wg_call.val) : \A j \in 1..Len(wg_call.val) :
              i < j => Position(wg_call.val[i]) < Position(wg_call.val[j])
        /\ \A k \in 1..Len(wg_call.val) :
              find_gaps(wg_call.before, wg_call.val[k]).err # "KeyError"

\* Three records share exactly one category: the first has three, the
\* second and the third two each.
C25_Witness ==
    /\ wg_call.op = "shared_categories"
    /\ Len(wg_call.before) = MaxWellsTrio
    /\ Len(wg_call.val) = 1
    /\ Cardinality(DOMAIN wg_call.before[1].date_ranges) = 3
    /\ Cardinality(DOMAIN wg_call.before[2].date_ranges) = 2
    /\ Cardinality(DOMAIN wg_call.before[3].date_ranges) = 2
    /\ find_gaps(wg_call.before, wg_call.val[1]).err = "ok"

\* ------------------------------------------------------------------------
\* Properties of the gateway and the controller
\* ------------------------------------------------------------------------
\* The operation op is among the gateway operations of the last call.
GatewayUsed(op) == \E i \in 1..Len(gw_call.ops) : gw_call.ops[i] = op

\* The record that the gateway's find returned to the last call was older
\* than max_record_age_in_days on the day of the call (the call's too_old).
HeldOldRecord == gw_call.opts[2]

\* C22: in get_well_record with store_after=True, when the gateway holds a
\* record for the API number that is older than max_record_age_in_days and
\* the collector returns a fresh record, the stored record is updated: the
\* call returns, the gateway's update is used and not its insert, and
\* afterwards the gateway holds for that API number the fresh record.
C22_OldRecordUpdated ==
    ( /\ gw_call.op = "get_well_record"
      /\ gw_call.opts[1]
      /\ gw_call.arg # None
      /\ HeldOldRecord ) =>
        /\ gw_call.err = "ok"
        /\ GatewayUsed("update")
        /\ ~GatewayUsed("insert")
        /\ find(collection, gw_call.api_num) = Ok(gw_call.arg)

\* The fields of a record that the gateway stores besides the API number.
StoredFields(wr) ==
    <<wr.well_name, wr.first_date, wr.last_date, wr.record_access_date,
      wr.date_ranges>>

\* C26: after update(well_record), find(well_record.api_num) returns a
\* record whose well_name, first_date, last_date, record_access_date and
\* date ranges per category equal those of the record passed to update,
\* when a record with that API number was stored and when the update
\* upserts.
C26_UpdateThenFind ==
    ( /\ gw_call.op = "update"
      /\ (gw_call.api_num \in DOMAIN gw_call.before \/ gw_call.opts[1]) ) =>
        \E r \in {find(collection, gw_call.api_num)} :
            /\ r.err = "ok"
            /\ r.val # None
            /\ StoredFields(r.val[1]) = StoredFields(gw_call.arg[1])

====
